---- MODULE Spec2Model ----
(***************************************************************************)
(* GitHubContributionAnalyzer (src/main.py): the paginated fetcher with    *)
(* its quota tracker and cache, the per-user statistics aggregator, and    *)
(* the resumable run orchestrator with its checkpoint and result files.    *)
(***************************************************************************)
EXTENDS Integers, Sequences, FiniteSets, TLC

(* ---------------------------------------------------------------------- *)
(* Bounds of the model                                                     *)
(* ---------------------------------------------------------------------- *)
MaxPages == 3        \* longest page chain the host serves for one query
MaxCalls == 2        \* calls of _paginated_request in one process
MaxQuota403 == 1     \* quota-exceeded answers the host gives within one call
MaxNetFail == 4      \* network failures the host causes within one call

(* ---------------------------------------------------------------------- *)
(* Program constants                                                       *)
(* ---------------------------------------------------------------------- *)
DefaultRemaining == 5000   \* self.rate_limit_remaining = 5000
RateLimitFloor == 10       \* if self.rate_limit_remaining < 10
ResetBuffer == 5           \* ... - current_time + 5
max_retries == 3           \* max_retries = 3

VARIABLES
    \* ---- quota tracker and clock
    rate_limit_remaining,  \* self.rate_limit_remaining
    reset_in,              \* self.rate_limit_reset - time.time(): seconds from now
                           \* to the tracked reset (negative: already past)
    \* ---- the host
    chainLen,              \* per query: number of pages of its chain (0: the
                           \* query was never asked and the host has not fixed it)
    \* ---- paginated fetcher
    cache,                 \* self.cache
    pc,                    \* position of the current call of _paginated_request
    url,                   \* its argument
    results,               \* its accumulator
    next_url,              \* page to request next (0: None)
    page_count,
    retry_count,
    error,                 \* the exception the call raised
    \* ---- observation of the current call and of the process
    calls,                 \* calls made so far in this process
    callRequests,          \* page requests the current call issued since it last
                           \* started from page 1
    callWaits,             \* wait_for_rate_limit invocations of the current call
                           \* since it last started from page 1
    callSleeps,            \* quota-exceeded sleeps (and restarts) of the current call
    n403,                  \* quota-exceeded answers received by the current call
    nNetFail,              \* network failures met by the current call
    priorSuccess,          \* some earlier call with this url returned
    firstResult,           \* per query: what its first successful call returned
    gate,                  \* for the page request about to be issued: what
                           \* happened last to the tracked quota (waited: a
                           \* wait_for_rate_limit that returned without
                           \* refreshing, refreshed: one that slept and
                           \* refreshed, none: no request is about to be issued)
    hardFailed,            \* queries for which some call raised on a status
                           \* that is neither 200 nor quota-exceeded
    lastBackoff,           \* the time.sleep argument of line 600 before the
                           \* request about to be issued (0: not a retry)
    \* ---- stats aggregator
    organizations,         \* self.organizations
    hostData,              \* per organization: what the host answers to its queries
    statsPc,               \* position of the current call of get_user_stats
    stats,                 \* the record it returned
    \* ---- checkpoint store and run orchestrator
    usernames,             \* the list given to analyze_users, the same in every run
    progressFile,          \* github_analysis_progress.json
    resultsFile,           \* github_analysis_results.json
    runPc,                 \* position of the process: off, loop, stats, retry, done
    runs,                  \* processes started so far
    completed_users,       \* self.completed_users
    pending_users,         \* pending_users of analyze_users
    idx,                   \* position of its loop in pending_users
    run_results,           \* results of analyze_users
    \* ---- observation of the runs
    loaded,                \* completed_users as loaded when the process started
    fetched,               \* users whose queries went to the host in this process
    statCalls,             \* the calls of get_user_stats of this run, in order,
                           \* each with how it ended
    succeeded,             \* users whose get_user_stats returned in this run
    allOk,                 \* no user of this run has failed
    ioFailed,              \* a file read or write of this run has failed
    flushOk,               \* the write of the interrupt handler succeeded
    everAbnormal,          \* some earlier process was interrupted or killed
    prev,                  \* how the previous process ended and what it returned
    \* ---- export
    exportData,            \* data given to export_to_excel
    exportPc,              \* position of the call of export_to_excel
    exported,              \* the rows of the frame after the sort of line 386
    \* ---- observation of a call of wait_for_rate_limit
    waitPc,                \* position of the call: idle, returned
    waitEntry,             \* the tracked quota when the call was entered
    waitSlept,             \* seconds the call slept
    waitRefreshed,         \* the call made update_rate_limit_info
    waitAnswer,            \* what the host sent to the last update of the
                           \* tracked quota: the answer of the quota endpoint
                           \* or the two headers of a page response
    \* ---- commit phase of get_user_stats for one organization
    repo_list,             \* repo_list of line 208
    commitPc,              \* position: idle, fetch, refresh, wait, reviews,
                           \* done, raised
    batchStart,            \* i of the loop of line 210
    batchLeft,             \* what the loop of line 212 still has to visit
    commitCalls            \* the calls made since line 208, in order

fetchVars == <<rate_limit_remaining, reset_in, chainLen, cache, pc, url,
               results, next_url, page_count, retry_count, error, calls,
               callRequests, callWaits, callSleeps, n403, nNetFail,
               priorSuccess, firstResult, gate, hardFailed, lastBackoff>>

statsVars == <<organizations, hostData, statsPc, stats>>

runVars == <<usernames, progressFile, resultsFile, runPc, runs, completed_users,
             pending_users, idx, run_results, loaded, fetched, statCalls, succeeded,
             allOk, ioFailed, flushOk, everAbnormal, prev>>

exportVars == <<exportData, exportPc, exported>>

waitVars == <<waitPc, waitEntry, waitSlept, waitRefreshed, waitAnswer>>

commitVars == <<repo_list, commitPc, batchStart, batchLeft, commitCalls>>

\* The fetcher's variables other than the tracked quota.
callVars == <<chainLen, cache, pc, url, results, next_url, page_count, retry_count,
              error, calls, callRequests, callWaits, callSleeps, n403, nNetFail,
              priorSuccess, firstResult, gate, hardFailed, lastBackoff>>

vars == <<fetchVars, statsVars, runVars, exportVars, waitVars, commitVars>>

(* ---------------------------------------------------------------------- *)
(* Values                                                                  *)
(* ---------------------------------------------------------------------- *)
\* Queries. The shape of a query's bodies is fixed by the endpoint: search
\* endpoints answer an object with an items field, the commits endpoint a
\* bare list, anything else a single object.
Urls == {"search", "commits", "single"}

ShapeOf(u) == CASE u = "search" -> "items"
                [] u = "commits" -> "list"
                [] OTHER -> "other"

\* Python values of the fetcher: a list, a dict with an items field, a dict
\* without one, and None.
PyNone == [kind |-> "none", recs |-> <<>>]
NoEntry == [kind |-> "absent", recs |-> <<>>]

\* The records the host holds on page p of query u.
PageSize(p) == IF p = 2 THEN 2 ELSE 1
RecordsOn(u, p) == [i \in 1..PageSize(p) |-> <<u, p, i>>]
BodyOf(u, p) == [kind |-> ShapeOf(u), recs |-> RecordsOn(u, p)]

RECURSIVE ConcatPages(_, _)
ConcatPages(u, n) == IF n = 0 THEN <<>> ELSE ConcatPages(u, n - 1) \o RecordsOn(u, n)

\* The clock is kept relative to the tracked reset: the code reads the time
\* only in self.rate_limit_reset - time.time() and in its comparison with
\* the reset. Every value at or below PastReset decides the same way (no
\* wait in wait_for_rate_limit, wait_time <= 0 at line 550), so the elapsing
\* of time stops decreasing it there.
PastReset == 0 - ResetBuffer
Elapse(r, d) == IF r - d < PastReset THEN PastReset ELSE r - d

\* What the host can put in the quota headers of a response, and what the
\* quota endpoint can answer: absent/failed, or values around the threshold
\* and a reset time before or after the current time.
Absent == 0 - 100
HostRemaining == {RateLimitFloor - 1, RateLimitFloor}
HostResetIn == {PastReset, 0 - 1, 2}
RefreshFailed == [ok |-> FALSE, remaining |-> 0, reset_in |-> 0]
RefreshOutcomes ==
    {RefreshFailed} \cup
    {[ok |-> TRUE, remaining |-> r, reset_in |-> 2] : r \in HostRemaining}

\* Answers of the quota endpoint at large: those above, and status 200 with
\* a body that lacks resources.core.remaining or resources.core.reset.
NoAnswer == [ok |-> FALSE, remaining |-> Absent, reset_in |-> Absent]
QuotaAnswers ==
    RefreshOutcomes \cup
    {[ok |-> TRUE, remaining |-> r, reset_in |-> Absent] : r \in HostRemaining} \cup
    {[ok |-> TRUE, remaining |-> Absent, reset_in |-> t] : t \in {Absent, 2}}

NoError == [kind |-> "none", status |-> 0, body |-> "", quota |-> FALSE]

(* ---------------------------------------------------------------------- *)
(* Quota tracker                                                           *)
(* ---------------------------------------------------------------------- *)
Quota(rem, rst) == [remaining |-> rem, reset_in |-> rst]

\* update_rate_limit_info, lines 62-74: another status or a failed request
\* leaves both fields; with status 200 line 68 assigns remaining and line
\* 69 assigns reset, and a body that lacks one of the keys raises there,
\* into the handler of line 73, with the assignments made so far kept.
update_rate_limit_info(q, out) ==
    IF ~out.ok \/ out.remaining = Absent THEN q
    ELSE IF out.reset_in = Absent THEN Quota(out.remaining, q.reset_in)
    ELSE Quota(out.remaining, out.reset_in)

\* Lines 76-85 with the sleep and the refresh lost: the call returns at once.
wait_for_rate_limit_NoSleep(q, out) == [q |-> q, slept |-> 0, refreshed |-> FALSE]

\* wait_for_rate_limit; out is the answer of the quota endpoint should the
\* refresh be made. slept is the time.sleep argument (0: no sleep).
wait_for_rate_limit(q, out) ==
    IF q.remaining < RateLimitFloor /\ 0 < q.reset_in
    THEN LET wait_time == q.reset_in + ResetBuffer IN
         [q |-> update_rate_limit_info(Quota(q.remaining, Elapse(q.reset_in, wait_time)), out),
          slept |-> wait_time, refreshed |-> TRUE]
    ELSE [q |-> q, slept |-> 0, refreshed |-> FALSE]

\* The answers of the quota endpoint that wait_for_rate_limit can meet when
\* entered with q: the endpoint is asked only behind the sleep (line 84).
AnswersFor(q) ==
    IF q.remaining < RateLimitFloor /\ 0 < q.reset_in
    THEN RefreshOutcomes ELSE {RefreshFailed}

\* The answers of the quota endpoint that a quota-exceeded response noted
\* as q can meet: line 556 asks the endpoint when no wait is left; after
\* the sleep of line 552 the restart finds the reset behind it and asks
\* nothing.
AnswersAfterQuotaExceeded(q) ==
    IF q.reset_in + ResetBuffer > 0 THEN {RefreshFailed} ELSE RefreshOutcomes

\* The header updates of lines 543-546: each header on its own.
NoteFromHeaders(q, hRem, hReset) ==
    Quota(IF hRem # Absent THEN hRem ELSE q.remaining,
          IF hReset # Absent THEN hReset ELSE q.reset_in)

(* ---------------------------------------------------------------------- *)
(* The quota tracker on its own                                            *)
(* ---------------------------------------------------------------------- *)
MaxAhead == 8        \* seconds the tracked reset can lie ahead at the start

WaitIdle ==
    /\ waitPc = "idle"
    /\ waitEntry = Quota(0, 0)
    /\ waitSlept = 0
    /\ waitRefreshed = FALSE
    /\ waitAnswer = NoAnswer

\* A caller invokes wait_for_rate_limit, lines 76-85.
WaitForRateLimit(out) ==
    /\ waitPc = "idle"
    /\ LET w == wait_for_rate_limit(Quota(rate_limit_remaining, reset_in), out)
       IN /\ rate_limit_remaining' = w.q.remaining
          /\ reset_in' = w.q.reset_in
          /\ waitSlept' = w.slept
          /\ waitRefreshed' = w.refreshed
    /\ waitEntry' = Quota(rate_limit_remaining, reset_in)
    /\ waitPc' = "returned"
    /\ UNCHANGED waitAnswer
    /\ UNCHANGED <<callVars, statsVars, runVars, exportVars, commitVars>>

\* The caller goes on.
WaitReturned ==
    /\ waitPc # "idle"
    /\ waitPc' = "idle"
    /\ waitEntry' = Quota(0, 0)
    /\ waitSlept' = 0
    /\ waitRefreshed' = FALSE
    /\ waitAnswer' = NoAnswer
    /\ UNCHANGED <<fetchVars, statsVars, runVars, exportVars, commitVars>>

\* A caller invokes update_rate_limit_info, lines 62-74.
UpdateRateLimitInfo(out) ==
    /\ waitPc = "idle"
    /\ LET q == update_rate_limit_info(Quota(rate_limit_remaining, reset_in), out)
       IN /\ rate_limit_remaining' = q.remaining
          /\ reset_in' = q.reset_in
    /\ waitPc' = "updated"
    /\ waitEntry' = Quota(rate_limit_remaining, reset_in)
    /\ waitAnswer' = out
    /\ UNCHANGED <<waitSlept, waitRefreshed>>
    /\ UNCHANGED <<callVars, statsVars, runVars, exportVars, commitVars>>

\* A page response arrives and lines 543-546 note its quota headers.
NoteHeaders(hRem, hReset) ==
    /\ waitPc = "idle"
    /\ LET q == NoteFromHeaders(Quota(rate_limit_remaining, reset_in), hRem, hReset)
       IN /\ rate_limit_remaining' = q.remaining
          /\ reset_in' = q.reset_in
    /\ waitPc' = "noted"
    /\ waitEntry' = Quota(rate_limit_remaining, reset_in)
    /\ waitAnswer' = [ok |-> TRUE, remaining |-> hRem, reset_in |-> hReset]
    /\ UNCHANGED <<waitSlept, waitRefreshed>>
    /\ UNCHANGED <<callVars, statsVars, runVars, exportVars, commitVars>>

\* A second passes between two calls.
Tick ==
    /\ waitPc = "idle"
    /\ reset_in > PastReset
    /\ reset_in' = Elapse(reset_in, 1)
    /\ UNCHANGED rate_limit_remaining
    /\ UNCHANGED <<callVars, statsVars, runVars, exportVars, waitVars, commitVars>>

NextQuota ==
    \/ \E out \in RefreshOutcomes : WaitForRateLimit(out)
    \/ WaitReturned
    \/ \E out \in QuotaAnswers : UpdateRateLimitInfo(out)
    \/ \E hRem \in HostRemaining \cup {Absent}, hReset \in HostResetIn \cup {Absent} :
         NoteHeaders(hRem, hReset)
    \/ Tick

\* The tracked quota now, and what the host sent.
Tracked == Quota(rate_limit_remaining, reset_in)
BothSent == waitAnswer.remaining # Absent /\ waitAnswer.reset_in # Absent

\* C24: after a page response the tracked quota is overwritten from the
\* headers only if the remaining-count header and the reset-timestamp
\* header are both present; if either is absent both fields are as before.
C24_HeadersOverwriteOnlyTogether ==
    waitPc = "noted" =>
        IF BothSent
        THEN Tracked = Quota(waitAnswer.remaining, waitAnswer.reset_in)
        ELSE Tracked = waitEntry

\* What the code does instead: each header overwrites its own field when it
\* is present, whatever the other header.
C24_EachHeaderOnItsOwn ==
    waitPc = "noted" =>
        /\ rate_limit_remaining = IF waitAnswer.remaining # Absent
                                  THEN waitAnswer.remaining ELSE waitEntry.remaining
        /\ reset_in = IF waitAnswer.reset_in # Absent
                      THEN waitAnswer.reset_in ELSE waitEntry.reset_in

\* C25: update_rate_limit_info ends without raising; when the quota
\* endpoint answers another status than 200 or the request fails, both
\* tracked fields are as before; when it answers 200, both fields are
\* overwritten together from the response.
C25_RefreshOverwritesBothOrNeither ==
    waitPc = "updated" =>
        IF waitAnswer.ok
        THEN Tracked = Quota(waitAnswer.remaining, waitAnswer.reset_in)
        ELSE Tracked = waitEntry

\* The part of C25 the code keeps: nothing changes without a 200, and a 200
\* whose body holds both fields overwrites both.
C25_RefreshOfWellFormedAnswer ==
    waitPc = "updated" =>
        /\ ~waitAnswer.ok => Tracked = waitEntry
        /\ (waitAnswer.ok /\ BothSent)
              => Tracked = Quota(waitAnswer.remaining, waitAnswer.reset_in)

\* The time of the return has reached the reset of the entry plus the buffer.
ReturnedAfterBuffer == waitEntry.reset_in - waitSlept <= 0 - ResetBuffer

\* C16: a call of wait_for_rate_limit entered with remaining < 10 does not
\* return before the reset time of the entry plus 5 seconds and has made
\* update_rate_limit_info, wherever the time of the entry lies relative to
\* the reset; a call entered with remaining >= 10 returns at once, without
\* sleeping or refreshing.
C16_WaitReachesResetPlusBuffer ==
    waitPc = "returned" =>
        IF waitEntry.remaining < RateLimitFloor
        THEN ReturnedAfterBuffer /\ waitRefreshed
        ELSE waitSlept = 0 /\ ~waitRefreshed

\* The part of C16 the code keeps: entered before the reset, the call sleeps
\* to the reset plus 5 seconds and refreshes; entered with remaining >= 10
\* it returns at once; entered at or after the reset it returns at once too.
C16_WaitsOnlyBeforeReset ==
    waitPc = "returned" =>
        IF waitEntry.remaining < RateLimitFloor /\ waitEntry.reset_in > 0
        THEN /\ waitSlept = waitEntry.reset_in + ResetBuffer
             /\ ReturnedAfterBuffer /\ waitRefreshed
        ELSE /\ waitSlept = 0 /\ ~waitRefreshed
             /\ rate_limit_remaining = waitEntry.remaining
             /\ reset_in = waitEntry.reset_in

(* ---------------------------------------------------------------------- *)
(* Paginated fetcher                                                       *)
(* ---------------------------------------------------------------------- *)
\* Line 524, with the lookup lost: every call misses.
CacheHit_NeverHits(u) == FALSE

\* Line 524: url in self.cache.
CacheHit(u) == cache[u] # NoEntry

\* Lines 565-573, with a body of another shape started as an empty list.
InitResults_WrapsSingle(data) ==
    CASE data.kind = "list" -> [kind |-> "list", recs |-> <<>>]
      [] data.kind = "items" -> [kind |-> "items", recs |-> <<>>]
      [] OTHER -> [kind |-> "list", recs |-> <<>>]

\* Lines 565-573: the accumulator initialised from the first body.
InitResults(data) ==
    CASE data.kind = "list" -> [kind |-> "list", recs |-> <<>>]
      [] data.kind = "items" -> [kind |-> "items", recs |-> <<>>]
      [] OTHER -> data

\* Lines 576-579, with a later page put in front of the earlier ones.
Combine_Prepends(acc, data) ==
    IF acc.kind = data.kind /\ acc.kind \in {"list", "items"}
    THEN [acc EXCEPT !.recs = data.recs \o acc.recs]
    ELSE acc

\* Lines 576-579: combine a page into the accumulator.
Combine(acc, data) ==
    IF acc.kind = "list" /\ data.kind = "list"
    THEN [acc EXCEPT !.recs = acc.recs \o data.recs]
    ELSE IF acc.kind = "items" /\ data.kind = "items"
         THEN [acc EXCEPT !.recs = acc.recs \o data.recs]
         ELSE acc

\* Lines 582-588: the next page named by the Link header (0: none).
NextLink(u, p) == IF p < chainLen[u] THEN p + 1 ELSE 0

\* What a wait_for_rate_limit that returned leaves on the gate.
GateAfterWait(w) == IF w.refreshed THEN "refreshed" ELSE "waited"

\* Entry of _paginated_request(u), lines 523-535, also taken by the
\* recursive call of line 554: a cache hit returns at once, otherwise the
\* quota check is made and the locals are fresh.
Enter(u, q, out) ==
    IF CacheHit(u)
    THEN /\ pc' = "returned"
         /\ results' = cache[u]
         /\ rate_limit_remaining' = q.remaining
         /\ reset_in' = q.reset_in
         /\ gate' = "none"
         /\ UNCHANGED <<next_url, page_count, retry_count, callWaits, callRequests>>
    ELSE LET w == wait_for_rate_limit(q, out) IN
         /\ pc' = "request"
         /\ results' = PyNone
         /\ next_url' = 1
         /\ page_count' = 0
         /\ retry_count' = 0
         /\ rate_limit_remaining' = w.q.remaining
         /\ reset_in' = w.q.reset_in
         /\ callWaits' = 1
         /\ callRequests' = 0
         /\ gate' = GateAfterWait(w)

\* The chains the host can hold for query u: up to MaxPages pages of a list
\* or an items answer; for any other body only whether its response names
\* a next page matters (chain of 2) or not (chain of 1).
ChainLengths(u) == IF ShapeOf(u) \in {"list", "items"} THEN 1..MaxPages ELSE 1..2

\* A caller invokes _paginated_request(u).
Call(u) ==
    /\ pc = "idle"
    /\ calls < MaxCalls
    /\ \E out \in AnswersFor(Quota(rate_limit_remaining, reset_in)) :
          Enter(u, Quota(rate_limit_remaining, reset_in), out)
    /\ url' = u
    /\ calls' = calls + 1
    /\ priorSuccess' = (firstResult[u] # NoEntry)
    /\ callSleeps' = 0
    /\ n403' = 0
    /\ nNetFail' = 0
    /\ error' = NoError
    /\ lastBackoff' = 0
    /\ IF chainLen[u] = 0
       THEN \E n \in ChainLengths(u) : chainLen' = [chainLen EXCEPT ![u] = n]
       ELSE UNCHANGED chainLen
    /\ UNCHANGED <<cache, firstResult>>
    /\ UNCHANGED hardFailed
    /\ UNCHANGED <<statsVars, runVars, exportVars, waitVars, commitVars>>

\* The host answers the page request with status 200: lines 540-546 and
\* 561-593, and 606-608 when the loop ends.
Page200(hRem, hReset, out) ==
    /\ pc = "request"
    /\ LET q == NoteFromHeaders(Quota(rate_limit_remaining, reset_in), hRem, hReset)
           data == BodyOf(url, next_url)
           first == results = PyNone
           acc == IF first THEN InitResults(data) ELSE results
           single == first /\ data.kind \notin {"list", "items"}
           res == IF single THEN acc ELSE Combine(acc, data)
           nxt == IF single THEN 0 ELSE NextLink(url, next_url)
           w == IF nxt # 0 THEN wait_for_rate_limit(q, out)
                ELSE [q |-> q, slept |-> 0, refreshed |-> FALSE]
       IN /\ results' = res
          /\ page_count' = page_count + 1
          /\ retry_count' = 0
          /\ callRequests' = callRequests + 1
          /\ rate_limit_remaining' = w.q.remaining
          /\ reset_in' = w.q.reset_in
          /\ IF nxt # 0
             THEN /\ next_url' = nxt
                  /\ callWaits' = callWaits + 1
                  /\ gate' = GateAfterWait(w)
                  /\ UNCHANGED <<pc, cache, firstResult>>
             ELSE /\ next_url' = IF single THEN next_url ELSE 0
                  /\ pc' = "returned"
                  /\ gate' = "none"
                  /\ cache' = [cache EXCEPT ![url] = res]
                  /\ firstResult' = IF firstResult[url] = NoEntry
                                    THEN [firstResult EXCEPT ![url] = res]
                                    ELSE firstResult
                  /\ UNCHANGED callWaits
    /\ lastBackoff' = 0
    /\ UNCHANGED <<chainLen, url, error, calls, callSleeps, n403,
                   nNetFail, priorSuccess>>
    /\ UNCHANGED hardFailed
    /\ UNCHANGED <<statsVars, runVars, exportVars, waitVars, commitVars>>

\* What lines 548-556 do with a quota-exceeded answer: a positive wait time
\* sleeps and restarts the whole query (line 554), otherwise the quota is
\* refreshed and line 558 raises.
QuotaExceeded(q, out) ==
    LET wait_time == q.reset_in + ResetBuffer IN
    IF wait_time > 0
    THEN /\ callSleeps' = callSleeps + 1
         /\ Enter(url, Quota(q.remaining, Elapse(q.reset_in, wait_time)), out)
         /\ UNCHANGED error
    ELSE LET r == update_rate_limit_info(q, out) IN
         /\ pc' = "raised"
         /\ error' = [kind |-> "request", status |-> 403,
                      body |-> "rate limit exceeded", quota |-> TRUE]
         /\ rate_limit_remaining' = r.remaining
         /\ reset_in' = r.reset_in
         /\ callRequests' = callRequests + 1
         /\ gate' = "none"
         /\ UNCHANGED <<results, next_url, page_count, retry_count,
                        callWaits, callSleeps>>

\* The host answers 403 with the rate-limit phrase in the body.
Page403(hRem, hReset, out) ==
    /\ pc = "request"
    /\ n403 < MaxQuota403
    /\ n403' = n403 + 1
    /\ lastBackoff' = 0
    /\ QuotaExceeded(NoteFromHeaders(Quota(rate_limit_remaining, reset_in),
                                     hRem, hReset), out)
    /\ UNCHANGED <<chainLen, cache, url, calls, nNetFail, priorSuccess, firstResult>>
    /\ UNCHANGED hardFailed
    /\ UNCHANGED <<statsVars, runVars, exportVars, waitVars, commitVars>>

\* The status and the body of an answer that is neither 200 nor
\* quota-exceeded, and the exception line 559 makes of them.
HardStatus == 500
HardBody == "Server Error"
HardError == [kind |-> "request", status |-> HardStatus, body |-> HardBody,
              quota |-> FALSE]

\* Line 558 with the pages accumulated so far stored under the query
\* before the raise.
PageHardFail_StoresPartial(hRem, hReset) ==
    /\ pc = "request"
    /\ LET q == NoteFromHeaders(Quota(rate_limit_remaining, reset_in), hRem, hReset)
       IN /\ rate_limit_remaining' = q.remaining
          /\ reset_in' = q.reset_in
    /\ pc' = "raised"
    /\ cache' = [cache EXCEPT ![url] = results]
    /\ error' = HardError
    /\ hardFailed' = hardFailed \cup {url}
    /\ callRequests' = callRequests + 1
    /\ gate' = "none"
    /\ lastBackoff' = 0
    /\ UNCHANGED <<chainLen, url, results, next_url, page_count,
                   retry_count, calls, callWaits, callSleeps, n403,
                   nNetFail, priorSuccess, firstResult>>
    /\ UNCHANGED <<statsVars, runVars, exportVars, waitVars, commitVars>>

\* The host answers another status (neither 200 nor quota-exceeded): line 558.
PageHardFail(hRem, hReset) ==
    /\ pc = "request"
    /\ LET q == NoteFromHeaders(Quota(rate_limit_remaining, reset_in), hRem, hReset)
       IN /\ rate_limit_remaining' = q.remaining
          /\ reset_in' = q.reset_in
    /\ pc' = "raised"
    /\ error' = HardError
    /\ hardFailed' = hardFailed \cup {url}
    /\ callRequests' = callRequests + 1
    /\ gate' = "none"
    /\ lastBackoff' = 0
    /\ UNCHANGED <<chainLen, cache, url, results, next_url, page_count,
                   retry_count, calls, callWaits, callSleeps, n403,
                   nNetFail, priorSuccess, firstResult>>
    /\ UNCHANGED <<statsVars, runVars, exportVars, waitVars, commitVars>>

RECURSIVE Pow2(_)
Pow2(k) == IF k = 0 THEN 1 ELSE 2 * Pow2(k - 1)

\* requests.get raises a RequestException: lines 594-604.
PageNetworkFail ==
    /\ pc = "request"
    /\ nNetFail < MaxNetFail
    /\ callRequests' = callRequests + 1
    /\ nNetFail' = nNetFail + 1
    /\ IF retry_count < max_retries
       THEN /\ retry_count' = retry_count + 1
            /\ lastBackoff' = Pow2(retry_count + 1)
            /\ reset_in' = Elapse(reset_in, Pow2(retry_count + 1))
            /\ UNCHANGED <<pc, error, gate>>
       ELSE /\ pc' = "raised"
            /\ error' = [kind |-> "network", status |-> 0, body |-> "", quota |-> FALSE]
            /\ gate' = "none"
            /\ lastBackoff' = 0
            /\ UNCHANGED <<retry_count, reset_in>>
    /\ UNCHANGED <<rate_limit_remaining, chainLen, cache, url,
                   results, next_url, page_count, calls, callWaits, callSleeps,
                   n403, priorSuccess, firstResult>>
    /\ UNCHANGED hardFailed
    /\ UNCHANGED <<statsVars, runVars, exportVars, waitVars, commitVars>>

\* The call is over and its caller goes on; the frame of the call is gone.
Finish ==
    /\ pc \in {"returned", "raised"}
    /\ pc' = "idle"
    /\ results' = PyNone
    /\ next_url' = 0
    /\ page_count' = 0
    /\ retry_count' = 0
    /\ error' = NoError
    /\ callRequests' = 0
    /\ callWaits' = 0
    /\ callSleeps' = 0
    /\ n403' = 0
    /\ nNetFail' = 0
    /\ priorSuccess' = FALSE
    /\ gate' = "none"
    /\ lastBackoff' = 0
    /\ UNCHANGED <<rate_limit_remaining, reset_in, chainLen, cache, url, calls,
                   firstResult>>
    /\ UNCHANGED hardFailed
    /\ UNCHANGED <<statsVars, runVars, exportVars, waitVars, commitVars>>

HeaderRemaining == HostRemaining \cup {Absent}
HeaderReset == HostResetIn \cup {Absent}

\* The fetcher with no call in progress and nothing cached.
FetcherIdle ==
    /\ chainLen = [u \in Urls |-> 0]
    /\ cache = [u \in Urls |-> NoEntry]
    /\ pc = "idle"
    /\ url = "search"
    /\ results = PyNone
    /\ next_url = 0
    /\ page_count = 0
    /\ retry_count = 0
    /\ error = NoError
    /\ calls = 0
    /\ callRequests = 0
    /\ callWaits = 0
    /\ callSleeps = 0
    /\ n403 = 0
    /\ nNetFail = 0
    /\ priorSuccess = FALSE
    /\ firstResult = [u \in Urls |-> NoEntry]
    /\ gate = "none"
    /\ hardFailed = {}
    /\ lastBackoff = 0

\* __init__, lines 37-51: the defaults (a reset of 0, long past), one
\* refresh, an empty cache.
InitFetch ==
    /\ \E out \in RefreshOutcomes :
          LET q == update_rate_limit_info(Quota(DefaultRemaining, PastReset), out)
          IN /\ rate_limit_remaining = q.remaining
             /\ reset_in = q.reset_in
    /\ FetcherIdle

Next ==
    \/ \E u \in Urls : Call(u)
    \/ \E hRem \in HeaderRemaining, hReset \in HeaderReset :
         \E out \in AnswersFor(NoteFromHeaders(Quota(rate_limit_remaining, reset_in),
                                                hRem, hReset)) :
            Page200(hRem, hReset, out)
    \/ \E hRem \in HeaderRemaining, hReset \in HeaderReset :
         \E out \in AnswersAfterQuotaExceeded(
                        NoteFromHeaders(Quota(rate_limit_remaining, reset_in),
                                        hRem, hReset)) :
            Page403(hRem, hReset, out)
    \/ \E hRem \in HeaderRemaining, hReset \in HeaderReset :
         PageHardFail(hRem, hReset)
    \/ Finish

(* ---------------------------------------------------------------------- *)
(* Properties of the fetcher                                               *)
(* ---------------------------------------------------------------------- *)
\* What the host holds for query u as one result: all pages of a list or
\* items chain in page order, the first body of any other query.
FullResult(u) ==
    IF ShapeOf(u) \in {"list", "items"}
    THEN [kind |-> ShapeOf(u), recs |-> ConcatPages(u, chainLen[u])]
    ELSE BodyOf(u, 1)

CallOver == pc \in {"returned", "raised"}

\* C1: once a call of _paginated_request for a query has returned, every
\* later call with the same query returns that same (cached) result and
\* issues no page request and makes no wait_for_rate_limit call.
C1_CachedQueryNeverRefetched ==
    (pc = "returned" /\ priorSuccess)
        => /\ results = firstResult[url]
           /\ callRequests = 0
           /\ callWaits = 0

C1_Witness ==
    /\ pc = "returned"
    /\ priorSuccess
    /\ results = FullResult(url)
    /\ chainLen[url] = 3

\* C2: for a list or items query answered by an N-page chain of status-200
\* pages, with no quota-exceeded answer and no network failure, the call
\* returns the records of pages 1..N concatenated in page order and has
\* issued exactly N page requests.
C2_PaginationConcatenatesInOrder ==
    (/\ pc = "returned"
     /\ ~priorSuccess
     /\ n403 = 0
     /\ nNetFail = 0
     /\ ShapeOf(url) \in {"list", "items"})
        => /\ results = [kind |-> ShapeOf(url), recs |-> ConcatPages(url, chainLen[url])]
           /\ callRequests = chainLen[url]

C2_Witness ==
    /\ pc = "returned"
    /\ ~priorSuccess
    /\ n403 = 0
    /\ nNetFail = 0
    /\ url = "search"
    /\ chainLen[url] = 3
    /\ Len(results.recs) = 4

\* C3: a call that met a quota-exceeded answer, and otherwise only
\* status-200 answers, has slept at least once, has restarted from page 1
\* and returns exactly what the host holds, each record once.
C3_QuotaExceededRestartsWithoutLoss ==
    (/\ CallOver
     /\ n403 > 0
     /\ nNetFail = 0
     /\ ~(error.kind = "request" /\ ~error.quota))
        => /\ pc = "returned"
           /\ callSleeps >= 1
           /\ results = FullResult(url)
           /\ callRequests = page_count

\* The part of C3 the code keeps: when the call does return after
\* quota-exceeded answers, each of them was slept on and restarted from, and
\* the result is what the host holds, no record lost or doubled.
C3_ReturnedAfterQuotaIsComplete ==
    (pc = "returned" /\ n403 > 0 /\ nNetFail = 0)
        => /\ callSleeps = n403
           /\ results = FullResult(url)
           /\ callRequests = page_count

\* C4: a quota-exceeded answer never makes the call raise, whatever the
\* tracked reset time is relative to the current time.
C4_QuotaExceededNeverRaises ==
    ~(pc = "raised" /\ error.kind = "request" /\ error.status = 403 /\ error.quota)

\* A page request is about to be issued (line 540).
IssuesRequest == pc = "request"

\* The tracked quota is under the floor and the tracked reset is ahead.
LowBeforeReset == rate_limit_remaining < RateLimitFloor /\ reset_in > 0

\* wait_for_rate_limit has returned since the last update of the tracked quota.
Gated == gate \in {"waited", "refreshed"}

HardRaised == pc = "raised" /\ error.kind = "request" /\ ~error.quota

\* C19: a page request answered with a status other than 200 that is not
\* quota-exceeded makes the call raise at once an error carrying the status
\* and the body, the request having been issued once and not retried; the
\* cache holds no entry for the query then, and never a partial one for
\* any query; a later call with the same query, no call having returned
\* for it, issues page requests again and returns the whole result.
C19_HardFailureRaisesAndCachesNothing ==
    /\ HardRaised =>
          /\ error.status = HardStatus /\ error.body = HardBody
          /\ callRequests = page_count + 1
          /\ retry_count = 0
          /\ cache[url] = NoEntry
          /\ url \in hardFailed
    /\ \A u \in Urls : cache[u] \in {NoEntry, FullResult(u)}
    /\ (pc = "returned" /\ url \in hardFailed /\ ~priorSuccess) =>
          /\ callRequests >= 1
          /\ callWaits >= 1
          /\ results = FullResult(url)

\* A query whose earlier call raised on a hard failure is fetched again,
\* over all the pages of a chain of several.
C19_Witness ==
    /\ pc = "returned"
    /\ url \in hardFailed
    /\ ~priorSuccess
    /\ chainLen[url] >= 2
    /\ callRequests = chainLen[url]

\* The first body of query u is neither a bare list nor an object with items.
SingleValued(u) == ShapeOf(u) \notin {"list", "items"}

\* C27: a call whose first page has a body that is neither a bare list nor
\* an object with an items field returns after that one page request, also
\* when the response names a next page, with the body unchanged as its
\* result and as the cache entry of the query.
C27_SingleValueEndsPagination ==
    (pc = "returned" /\ SingleValued(url) /\ ~priorSuccess) =>
        /\ callRequests = 1
        /\ page_count = 1
        /\ results = BodyOf(url, 1)
        /\ cache[url] = BodyOf(url, 1)

\* Such a call has returned although the host named a next page.
C27_Witness ==
    /\ pc = "returned"
    /\ SingleValued(url)
    /\ ~priorSuccess
    /\ chainLen[url] = 2
    /\ cache[url] = BodyOf(url, 1)

\* The call raised the network error (line 604).
NetworkRaised == pc = "raised" /\ error.kind = "network"

\* Retries the current call has made after network failures: every failure
\* but the one that raised was followed by a retry.
NetRetries == IF NetworkRaised THEN nNetFail - 1 ELSE nNetFail

\* C18: within one call of _paginated_request, whatever the number of
\* pages, at most 3 retries are made after network failures, the k-th of
\* them behind a sleep of 2^k seconds; a network failure met after the 3
\* retries makes the call raise the network error, with nothing cached for
\* the query.  Stated for calls that met no quota-exceeded answer, which
\* run in a single frame.
C18_AtMostThreeRetriesPerCall ==
    n403 = 0 =>
        /\ NetRetries <= max_retries
        /\ (lastBackoff # 0 => lastBackoff = Pow2(NetRetries))
        /\ (nNetFail > max_retries => NetworkRaised /\ cache[url] = NoEntry)

\* The part of C18 the code keeps, per page: at most 3 retries follow one
\* another without a page in between, the k-th of them behind a sleep of
\* 2^k seconds, and the call raises the network error only on a failure
\* that follows 3 such retries, with nothing cached for the query.
C18_AtMostThreeRetriesPerPage ==
    /\ retry_count <= max_retries
    /\ (lastBackoff # 0 => retry_count > 0 /\ lastBackoff = Pow2(retry_count))
    /\ (NetworkRaised => retry_count = max_retries /\ cache[url] = NoEntry)

(* ---------------------------------------------------------------------- *)
(* Stats aggregator: get_user_stats                                        *)
(* ---------------------------------------------------------------------- *)
MaxPRs == 2          \* authored pull requests the host holds per organization

\* Organization names, as their characters: "a-b", "a_b" and "c".
OrgNames == {<<"a", "-", "b">>, <<"a", "_", "b">>, <<"c">>}
OrgLists == [1..1 -> OrgNames] \cup [1..2 -> OrgNames]

\* Line 260: org.replace('-', '_') followed by "_".
Prefix(org) == [i \in DOMAIN org |-> IF org[i] = "-" THEN "_" ELSE org[i]] \o <<"_">>

\* What the host answers for one organization: the authored pull requests,
\* the authored issues, the length of the author's commit list of every
\* repository, and the sizes of the reviewed-by and the two commenter results.
PRKinds == [state : {"open", "closed"}, merged_at : {"", "t"}, repo : {"r1"}]
PRSeqs == UNION {[1..n -> PRKinds] : n \in 0..MaxPRs}
RepoNames == {"r1", "r2"}
Quiet == [issues |-> <<>>, commits |-> [r \in RepoNames |-> 1],
          reviews |-> 0, ci |-> 0, cp |-> 0]
Busy == [issues |-> <<[state |-> "closed", repo |-> "r2"], [state |-> "open", repo |-> "r1"]>>,
         commits |-> [r \in RepoNames |-> IF r = "r1" THEN 2 ELSE 3],
         reviews |-> 1, ci |-> 1, cp |-> 2]
Reviewer == [issues |-> <<[state |-> "closed", repo |-> "r1"]>>,
             commits |-> [r \in RepoNames |-> 4],
             reviews |-> 1, ci |-> 0, cp |-> 0]
OrgData == [prs : PRSeqs, other : {Quiet, Busy, Reviewer}]

CounterNames == {"pr_total", "pr_merged", "pr_open", "commits", "issues_opened",
                 "issues_closed", "issues_commented", "reviews_submitted"}

\* Lines 123-149: the counters and the repository set, all empty.
NewStats == [pr_total |-> 0, pr_merged |-> 0, pr_open |-> 0, commits |-> 0,
             issues_opened |-> 0, issues_closed |-> 0, issues_commented |-> 0,
             reviews_submitted |-> 0, repos |-> {}]

\* Lines 167-174, with the state test of the merged branch lost.
ClassifyPR_IgnoresState(pr) ==
    IF pr.merged_at # "" THEN "merged"
    ELSE IF pr.state = "open" THEN "open" ELSE "neither"

\* Lines 167-174: the class a pull request is counted in.
ClassifyPR(pr) ==
    IF pr.state = "open" THEN "open"
    ELSE IF pr.state = "closed" /\ pr.merged_at # "" THEN "merged"
    ELSE "neither"

Bump(st, field, n) == [st EXCEPT ![field] = @ + n]

\* Lines 166-181: one pull request added to the organization's counters (o)
\* and to the overall ones (a).
AddPR(s, org, pr) ==
    LET c == ClassifyPR(pr)
        o1 == IF c = "open" THEN Bump(s.o, "pr_open", 1)
              ELSE IF c = "merged" THEN Bump(s.o, "pr_merged", 1) ELSE s.o
        a1 == IF c = "open" THEN Bump(s.a, "pr_open", 1)
              ELSE IF c = "merged" THEN Bump(s.a, "pr_merged", 1) ELSE s.a
    IN IF pr.repo # ""
       THEN [o |-> [o1 EXCEPT !.repos = @ \cup {pr.repo}],
             a |-> [a1 EXCEPT !.repos = @ \cup {<<org, pr.repo>>}]]
       ELSE [o |-> o1, a |-> a1]

\* Lines 193-203, with the state test lost: every issue counts as closed.
AddIssue_IgnoresState(s, org, issue) ==
    [o |-> [Bump(s.o, "issues_closed", 1) EXCEPT !.repos = @ \cup {issue.repo}],
     a |-> [Bump(s.a, "issues_closed", 1) EXCEPT !.repos = @ \cup {<<org, issue.repo>>}]]

\* Lines 193-203: one issue.
AddIssue(s, org, issue) ==
    LET o1 == IF issue.state = "closed" THEN Bump(s.o, "issues_closed", 1) ELSE s.o
        a1 == IF issue.state = "closed" THEN Bump(s.a, "issues_closed", 1) ELSE s.a
    IN IF issue.repo # ""
       THEN [o |-> [o1 EXCEPT !.repos = @ \cup {issue.repo}],
             a |-> [a1 EXCEPT !.repos = @ \cup {<<org, issue.repo>>}]]
       ELSE [o |-> o1, a |-> a1]

RECURSIVE FoldPRs(_, _, _, _)
FoldPRs(s, org, items, i) ==
    IF i > Len(items) THEN s ELSE FoldPRs(AddPR(s, org, items[i]), org, items, i + 1)

RECURSIVE FoldIssues(_, _, _, _)
FoldIssues(s, org, items, i) ==
    IF i > Len(items) THEN s ELSE FoldIssues(AddIssue(s, org, items[i]), org, items, i + 1)

\* Lines 208-217: the lengths of the author's commit lists of the
\* repositories in repos, added up.
RECURSIVE CommitsIn(_, _)
CommitsIn(repos, lens) ==
    IF repos = {} THEN 0
    ELSE LET r == CHOOSE x \in repos : TRUE
         IN lens[r] + CommitsIn(repos \ {r}, lens)

\* Lines 163, 190, 217, 228, 247: stats[...] += the organization's count.
Total(overall, n) == overall + n

\* Lines 152-250: one organization's queries folded into its own counters
\* and into the overall ones.
ProcessOrg(a, org, d) ==
    LET s0 == [o |-> [NewStats EXCEPT !.pr_total = Len(d.prs)],
               a |-> [a EXCEPT !.pr_total = Total(@, Len(d.prs))]]
        s1 == FoldPRs(s0, org, d.prs, 1)
        s2 == FoldIssues([o |-> [s1.o EXCEPT !.issues_opened = Len(d.other.issues)],
                          a |-> [s1.a EXCEPT !.issues_opened = Total(@, Len(d.other.issues))]],
                         org, d.other.issues, 1)
        nCommits == CommitsIn(s2.o.repos, d.other.commits)
        nComments == d.other.ci + d.other.cp
    IN [o |-> [s2.o EXCEPT !.commits = @ + nCommits,
                           !.reviews_submitted = d.other.reviews,
                           !.issues_commented = nComments],
        a |-> [s2.a EXCEPT !.commits = Total(@, nCommits),
                           !.reviews_submitted = Total(@, d.other.reviews),
                           !.issues_commented = Total(@, nComments)]]

\* Lines 250 and 256: a repository set collapsed to its size.
Collapse(st) ==
    [c \in CounterNames \cup {"repos_contributed"} |->
        IF c = "repos_contributed" THEN Cardinality(st.repos) ELSE st[c]]

\* The loop of line 152 over organizations[i..]: per is the per-organization
\* dictionary built so far. An organization listed twice finds its
\* repository set already collapsed to a number (line 250) and line 208
\* raises.
RECURSIVE OrgLoop(_, _, _, _)
OrgLoop(orgs, d, i, acc) ==
    IF i > Len(orgs) \/ ~acc.ok THEN acc
    ELSE IF orgs[i] \in DOMAIN acc.per
         THEN [acc EXCEPT !.ok = FALSE]
         ELSE LET s == ProcessOrg(acc.a, orgs[i], d[orgs[i]])
              IN OrgLoop(orgs, d, i + 1,
                         [ok |-> TRUE, a |-> s.a,
                          per |-> [o \in DOMAIN acc.per \cup {orgs[i]} |->
                                      IF o = orgs[i] THEN Collapse(s.o) ELSE acc.per[o]]])

\* The last organization of the list whose prefix is p: lines 259-262 write
\* the flattened keys in list order, a later write replacing an earlier one.
LastWithPrefix(orgs, p) ==
    orgs[CHOOSE i \in DOMAIN orgs :
            /\ Prefix(orgs[i]) = p
            /\ \A j \in DOMAIN orgs : Prefix(orgs[j]) = p => j <= i]

NoStats == [ok |-> FALSE]

\* get_user_stats, lines 123-268: the overall counters and, under each
\* organization's prefix, that organization's counters.
get_user_stats(orgs, d) ==
    LET r == OrgLoop(orgs, d, 1, [ok |-> TRUE, a |-> NewStats, per |-> <<>>])
    IN IF ~r.ok THEN NoStats
       ELSE [ok |-> TRUE,
             overall |-> Collapse(r.a),
             flat |-> [p \in {Prefix(orgs[i]) : i \in DOMAIN orgs} |->
                          r.per[LastWithPrefix(orgs, p)]]]

\* A caller invokes get_user_stats; the host holds some data d for the
\* configured organizations.
GetUserStats ==
    /\ statsPc = "idle"
    /\ \E d \in [{organizations[i] : i \in DOMAIN organizations} -> OrgData] :
          /\ hostData' = d
          /\ stats' = get_user_stats(organizations, d)
    /\ statsPc' = IF stats'.ok THEN "returned" ELSE "raised"
    /\ UNCHANGED organizations
    /\ UNCHANGED <<fetchVars, runVars, exportVars, waitVars, commitVars>>

\* The caller takes the record (or the exception).
StatsDone ==
    /\ statsPc \in {"returned", "raised"}
    /\ statsPc' = "idle"
    /\ hostData' = <<>>
    /\ stats' = NoStats
    /\ UNCHANGED organizations
    /\ UNCHANGED <<fetchVars, runVars, exportVars, waitVars, commitVars>>

StatsIdle ==
    /\ hostData = <<>>
    /\ statsPc = "idle"
    /\ stats = NoStats

NextStats ==
    \/ GetUserStats
    \/ StatsDone

(* ---------------------------------------------------------------------- *)
(* Properties of the aggregator                                            *)
(* ---------------------------------------------------------------------- *)
RECURSIVE SumOver(_, _)
SumOver(f, n) == IF n = 0 THEN 0 ELSE SumOver(f, n - 1) + f[n]

\* The organization-qualified counter c of the i-th configured organization,
\* read from the returned record.
Qualified(c) == [i \in DOMAIN organizations |-> stats.flat[Prefix(organizations[i])][c]]

Additive ==
    /\ \A c \in CounterNames :
          stats.overall[c] = SumOver(Qualified(c), Len(organizations))
    /\ stats.overall["repos_contributed"]
          <= SumOver(Qualified("repos_contributed"), Len(organizations))

\* C9: in every returned record each overall counter is the sum over the
\* configured organizations of the organization-qualified counter, and the
\* overall repos_contributed is at most the sum of the qualified ones.
C9_OverallIsSumOfOrganizations == statsPc = "returned" => Additive

DistinctPrefixes ==
    \A i, j \in DOMAIN organizations :
        Prefix(organizations[i]) = Prefix(organizations[j]) => i = j

\* The part of C9 the code keeps: additivity for organizations whose
\* prefixes differ.
C9_AdditiveForDistinctPrefixes == (statsPc = "returned" /\ DistinctPrefixes) => Additive

\* Reference classification of one organization's pull requests.
MergedIn(prs) == Cardinality({i \in DOMAIN prs : prs[i].state = "closed" /\ prs[i].merged_at # ""})
OpenIn(prs) == Cardinality({i \in DOMAIN prs : prs[i].state = "open"})
PRsOf(i) == hostData[organizations[i]].prs

\* C10: a pull request counts as merged iff it is closed with a merge
\* timestamp, as open iff its state is open, and otherwise as neither, so
\* pr_merged + pr_open <= pr_total for every organization and overall.
C10_PRClassification ==
    statsPc = "returned" =>
        /\ stats.overall["pr_merged"]
              = SumOver([i \in DOMAIN organizations |-> MergedIn(PRsOf(i))], Len(organizations))
        /\ stats.overall["pr_open"]
              = SumOver([i \in DOMAIN organizations |-> OpenIn(PRsOf(i))], Len(organizations))
        /\ stats.overall["pr_merged"] + stats.overall["pr_open"] <= stats.overall["pr_total"]
        /\ \A p \in DOMAIN stats.flat :
              LET prs == hostData[LastWithPrefix(organizations, p)].prs IN
              /\ stats.flat[p]["pr_merged"] = MergedIn(prs)
              /\ stats.flat[p]["pr_open"] = OpenIn(prs)
              /\ stats.flat[p]["pr_total"] = Len(prs)
              /\ stats.flat[p]["pr_merged"] + stats.flat[p]["pr_open"] <= stats.flat[p]["pr_total"]

\* Two organizations holding, between them, an open pull request carrying a
\* merge timestamp, a merged one and a closed unmerged one.
C10_Witness ==
    /\ statsPc = "returned"
    /\ Len(organizations) = 2
    /\ stats.overall["pr_total"] = 4
    /\ stats.overall["pr_merged"] = 1
    /\ stats.overall["pr_open"] = 2
    /\ \E i \in DOMAIN organizations : \E k \in DOMAIN PRsOf(i) :
          PRsOf(i)[k].state = "open" /\ PRsOf(i)[k].merged_at # ""

\* Reference values for one organization's host data d, read off the data.
ReposNamed(d) ==
    ({d.prs[i].repo : i \in DOMAIN d.prs}
        \cup {d.other.issues[i].repo : i \in DOMAIN d.other.issues}) \ {""}

Reference(d) ==
    [pr_total |-> Len(d.prs),
     issues_opened |-> Len(d.other.issues),
     issues_closed |-> Cardinality({i \in DOMAIN d.other.issues :
                                       d.other.issues[i].state = "closed"}),
     reviews_submitted |-> d.other.reviews,
     issues_commented |-> d.other.ci + d.other.cp,
     repos_contributed |-> Cardinality(ReposNamed(d)),
     commits |-> SumOver([k \in 1..2 |-> IF <<"r1", "r2">>[k] \in ReposNamed(d)
                                          THEN d.other.commits[<<"r1", "r2">>[k]] ELSE 0], 2)]

\* C11: for one configured organization the returned record carries, overall
\* and under the organization's prefix, the number of authored pull requests,
\* of authored issues, of closed ones among them, of reviewed pull requests,
\* of issue comments plus pull-request comments, of distinct repositories named
\* by the authored pull requests and issues, and the summed lengths of the
\* author's commit lists of those repositories.
C11_RecordMatchesReference ==
    (statsPc = "returned" /\ Len(organizations) = 1) =>
        LET ref == Reference(hostData[organizations[1]]) IN
        \A c \in DOMAIN ref :
            /\ stats.overall[c] = ref[c]
            /\ stats.flat[Prefix(organizations[1])][c] = ref[c]

\* The scenario of the specification: 2 pull requests (1 merged, 1 open), 1
\* closed issue, 1 review, 1 repository with 4 commits, no comments.
C11_Witness ==
    /\ statsPc = "returned" /\ Len(organizations) = 1
    /\ hostData[organizations[1]] =
          [prs |-> <<[state |-> "closed", merged_at |-> "t", repo |-> "r1"],
                     [state |-> "open", merged_at |-> "", repo |-> "r1"]>>,
           other |-> Reviewer]
    /\ stats.overall = [pr_total |-> 2, pr_merged |-> 1, pr_open |-> 1,
                         issues_opened |-> 1, issues_closed |-> 1, commits |-> 4,
                         reviews_submitted |-> 1, repos_contributed |-> 1,
                         issues_commented |-> 0]

(* ---------------------------------------------------------------------- *)
(* Checkpoint store and run orchestrator: main and analyze_users           *)
(* ---------------------------------------------------------------------- *)
MaxRuns == 2         \* processes started one after the other over the same files

Users == {"u1", "u2"}
UserLists == [1..1 -> Users] \cup [1..2 -> Users]

\* A file on disk: missing, unreadable, or holding JSON.
MissingFile == [state |-> "missing", data |-> <<>>]
CorruptFile == [state |-> "corrupt", data |-> <<>>]
FileWith(d) == [state |-> "ok", data |-> d]

\* The checkpoint file, missing or unreadable: it holds no set.
MissingCheckpoint == [state |-> "missing", data |-> {}]
CorruptCheckpoint == [state |-> "corrupt", data |-> {}]

\* How a write ends: done, not begun (open fails: the file is as before), or
\* broken off after open(..., 'w') truncated the file.
WriteOutcomes == {"ok", "unwritten", "torn"}
Written(file, d, w) ==
    CASE w = "ok" -> FileWith(d)
      [] w = "unwritten" -> file
      [] OTHER -> CorruptFile

\* save_progress, lines 87-98, with the write lost.
save_progress_Skips(file, completed, w) == file

\* save_progress, lines 87-98: the write is attempted, a failure is logged.
save_progress(file, completed, w) ==
    CASE w = "ok" -> FileWith(completed)
      [] w = "unwritten" -> file
      [] OTHER -> CorruptCheckpoint

\* load_progress, lines 100-111, forgetting what the file holds.
load_progress_Forgets(file) == {}

\* load_progress, lines 100-111: the set of the file, or the empty set the
\* constructor made (line 54) when the file is missing or unreadable.
load_progress(file) == IF file.state = "ok" THEN file.data ELSE {}

\* Line 282, with the filter lost.
PendingUsers_NoSkip(names, completed) == names

\* Line 282: pending_users.
PendingUsers(names, completed) == SelectSeq(names, LAMBDA u : u \notin completed)

\* The record get_user_stats returns for a user in process number run: the
\* host's data as it was read in that process.
UserRecord(u, run) == [username |-> u, ver |-> run]

NamesIn(recs) == {recs[i].username : i \in DOMAIN recs}

\* Lines 332-335, with the test against the completion set lost.
RECURSIVE MergeCached_AnyUser(_, _, _, _)
MergeCached_AnyUser(res, cached, completed, i) ==
    IF i > Len(cached) THEN res
    ELSE MergeCached_AnyUser(IF cached[i].username \notin NamesIn(res)
                             THEN Append(res, cached[i]) ELSE res,
                             cached, completed, i + 1)

\* Lines 332-335: cached records of completed users not yet in the results.
RECURSIVE MergeCached(_, _, _, _)
MergeCached(res, cached, completed, i) ==
    IF i > Len(cached) THEN res
    ELSE MergeCached(IF cached[i].username \in completed
                        /\ cached[i].username \notin NamesIn(res)
                     THEN Append(res, cached[i]) ELSE res,
                     cached, completed, i + 1)

\* Lines 324-337, with the records of this run lost when the result file
\* cannot be read.
WithCached_LosesOnBadFile(res, file, completed, pending) ==
    IF file.state # "ok" THEN <<>>
    ELSE IF completed \ {pending[i] : i \in DOMAIN pending} # {}
         THEN MergeCached(res, file.data, completed, 1)
         ELSE res

\* Lines 324-337: the results with the cached records merged in.
WithCached(res, file, completed, pending) ==
    IF completed \ {pending[i] : i \in DOMAIN pending} # {} /\ file.state = "ok"
    THEN MergeCached(res, file.data, completed, 1)
    ELSE res

\* Lines 696-698, with the flush lost.
InterruptFlush_Skips(file, completed, w) == file

\* Lines 696-698: the KeyboardInterrupt handler of main saves the progress.
InterruptFlush(file, completed, w) == save_progress(file, completed, w)

\* Lines 302-306 and 319-322, with the failing user's record appended.
OnFailure_KeepsRecord(res, u, run) == Append(res, UserRecord(u, run))

\* Lines 302-306 and 319-322: the except branches append nothing to results.
OnFailure(res, u, run) == res

\* Texts, as their words. str.lower() on the words that occur.
LowerWord(t) == CASE t = "API" -> "api"
                  [] t = "Rate" -> "rate"
                  [] OTHER -> t
Lower(text) == [i \in DOMAIN text |-> LowerWord(text[i])]

\* needle in hay, for texts.
Contains(hay, needle) ==
    \E k \in 0..(Len(hay) - Len(needle)) : SubSeq(hay, k + 1, k + Len(needle)) = needle

\* Bodies the host sends with a 403 for an exhausted quota, and with a 500.
QuotaBodyApi == <<"API", "rate", "limit", "exceeded", "for", "user">>
QuotaBodyPlain == <<"Rate", "limit", "exceeded">>
ServerErrorBody == <<"Server", "Error">>

\* Line 548: the answer the fetcher takes for quota-exceeded.
IsQuotaExceeded(resp) ==
    resp.status = "403" /\ Contains(Lower(resp.body), <<"rate", "limit", "exceeded">>)

\* What makes a call of get_user_stats raise: a page answer that
\* _paginated_request raises on at line 559 (a quota-exceeded answer gets
\* there through line 556), or a network failure re-raised at line 604.
NoFailure == [kind |-> "none", status |-> "", body |-> <<>>]
Failures ==
    {[kind |-> "request", status |-> "403", body |-> b] : b \in {QuotaBodyApi, QuotaBodyPlain}}
    \cup {[kind |-> "request", status |-> "500", body |-> ServerErrorBody],
          [kind |-> "network", status |-> "", body |-> <<"Connection", "refused">>]}

\* str(e): line 559 builds "API request failed: <status> - <body>"; a
\* network failure carries the text of the transport error.
ExceptionText(e) ==
    IF e.kind = "request"
    THEN <<"API", "request", "failed:", e.status, "-">> \o e.body
    ELSE e.body

\* Line 306: "API rate limit exceeded" in str(e).
IndicatesQuota(text) == Contains(text, <<"API", "rate", "limit", "exceeded">>)

\* The last call of get_user_stats has ended as out, raising e if it raised;
\* saved tells whether the branch that handles the outcome calls save_progress.
Ended(sc, out, e, saved) ==
    [sc EXCEPT ![Len(sc)].outcome = out, ![Len(sc)].cause = e, ![Len(sc)].saved = saved]

NoPrev == [exit |-> "none", allOk |-> FALSE, io |-> FALSE, returned |-> <<>>]

RunIdle ==
    /\ progressFile = MissingCheckpoint
    /\ resultsFile = MissingFile
    /\ runPc = "off"
    /\ runs = 0
    /\ completed_users = {}
    /\ loaded = {}
    /\ pending_users = <<>>
    /\ idx = 0
    /\ run_results = <<>>
    /\ fetched = {}
    /\ statCalls = <<>>
    /\ succeeded = {}
    /\ allOk = TRUE
    /\ ioFailed = FALSE
    /\ flushOk = FALSE
    /\ everAbnormal = FALSE
    /\ prev = NoPrev

\* A process starts: the constructor loads the checkpoint (line 56), main
\* calls analyze_users (line 689), which filters the list (lines 280-285).
StartRun ==
    /\ runPc = "off"
    /\ runs < MaxRuns
    /\ runs' = runs + 1
    /\ completed_users' = load_progress(progressFile)
    /\ loaded' = completed_users'
    /\ pending_users' = PendingUsers(usernames, completed_users')
    /\ idx' = 1
    /\ run_results' = <<>>
    /\ fetched' = {}
    /\ statCalls' = <<>>
    /\ succeeded' = {}
    /\ allOk' = TRUE
    /\ ioFailed' = (progressFile.state = "corrupt")
    /\ flushOk' = FALSE
    /\ runPc' = "loop"
    /\ UNCHANGED <<usernames, progressFile, resultsFile, everAbnormal, prev>>
    /\ UNCHANGED <<fetchVars, statsVars, exportVars, waitVars, commitVars>>

\* Lines 287-294: the next pending user; get_user_stats is entered.
BeginUser ==
    /\ runPc = "loop"
    /\ idx <= Len(pending_users)
    /\ runPc' = "stats"
    /\ statCalls' = Append(statCalls, [user |-> pending_users[idx], retry |-> FALSE,
                                       outcome |-> "running", cause |-> NoFailure, saved |-> FALSE])
    /\ UNCHANGED <<usernames, progressFile, resultsFile, runs, completed_users, loaded,
                   pending_users, idx, run_results, fetched, succeeded, allOk, ioFailed,
                   flushOk, everAbnormal, prev>>
    /\ UNCHANGED <<fetchVars, statsVars, exportVars, waitVars, commitVars>>

\* Lines 295-299 and 315-317: the record is appended, the user marked
\* completed and the progress saved.
Completed(w) ==
    LET u == pending_users[idx] IN
    /\ run_results' = Append(run_results, UserRecord(u, runs))
    /\ completed_users' = completed_users \cup {u}
    /\ progressFile' = save_progress(progressFile, completed_users', w)
    /\ ioFailed' = (ioFailed \/ w # "ok")
    /\ fetched' = fetched \cup {u}
    /\ succeeded' = succeeded \cup {u}
    /\ statCalls' = Ended(statCalls, "returned", NoFailure, TRUE)
    /\ idx' = idx + 1
    /\ runPc' = "loop"
    /\ UNCHANGED <<usernames, resultsFile, runs, loaded, pending_users, allOk,
                   flushOk, everAbnormal, prev>>
    /\ UNCHANGED <<fetchVars, statsVars, exportVars, waitVars, commitVars>>

\* get_user_stats returns at line 294.
UserSucceeds(w) ==
    /\ runPc = "stats"
    /\ Completed(w)

\* get_user_stats raises with "API rate limit exceeded" in the message:
\* lines 302-314, the quota is refreshed and waited for and the user retried.
UserFailsQuota(e) ==
    /\ runPc = "stats"
    /\ IndicatesQuota(ExceptionText(e))
    /\ runPc' = "retry"
    /\ fetched' = fetched \cup {pending_users[idx]}
    /\ run_results' = OnFailure(run_results, pending_users[idx], runs)
    /\ statCalls' = Append(Ended(statCalls, "raised", e, FALSE),
                           [user |-> pending_users[idx], retry |-> TRUE,
                            outcome |-> "running", cause |-> NoFailure, saved |-> FALSE])
    /\ UNCHANGED <<usernames, progressFile, resultsFile, runs, completed_users, loaded,
                   pending_users, idx, succeeded, allOk, ioFailed, flushOk,
                   everAbnormal, prev>>
    /\ UNCHANGED <<fetchVars, statsVars, exportVars, waitVars, commitVars>>

\* get_user_stats raises anything else: lines 302-306, the next user.
UserFailsOther(e) ==
    /\ runPc = "stats"
    /\ ~IndicatesQuota(ExceptionText(e))
    /\ runPc' = "loop"
    /\ idx' = idx + 1
    /\ allOk' = FALSE
    /\ fetched' = fetched \cup {pending_users[idx]}
    /\ run_results' = OnFailure(run_results, pending_users[idx], runs)
    /\ statCalls' = Ended(statCalls, "raised", e, FALSE)
    /\ UNCHANGED <<usernames, progressFile, resultsFile, runs, completed_users, loaded,
                   pending_users, succeeded, ioFailed, flushOk,
                   everAbnormal, prev>>
    /\ UNCHANGED <<fetchVars, statsVars, exportVars, waitVars, commitVars>>

\* The retry returns at line 314.
RetrySucceeds(w) ==
    /\ runPc = "retry"
    /\ Completed(w)

\* The retry raises: lines 319-322, the progress is saved as it is.
RetryFails(e, w) ==
    /\ runPc = "retry"
    /\ progressFile' = save_progress(progressFile, completed_users, w)
    /\ ioFailed' = (ioFailed \/ w # "ok")
    /\ allOk' = FALSE
    /\ idx' = idx + 1
    /\ runPc' = "loop"
    /\ run_results' = OnFailure(run_results, pending_users[idx], runs)
    /\ statCalls' = Ended(statCalls, "raised", e, TRUE)
    /\ UNCHANGED <<usernames, resultsFile, runs, completed_users, loaded, pending_users,
                   fetched, succeeded, flushOk, everAbnormal, prev>>
    /\ UNCHANGED <<fetchVars, statsVars, exportVars, waitVars, commitVars>>

\* Lines 324-347: the loop is over; cached records are merged in, the
\* result file is written and the results returned.
FinishLoop(w) ==
    /\ runPc = "loop"
    /\ idx > Len(pending_users)
    /\ run_results' = WithCached(run_results, resultsFile, completed_users, pending_users)
    /\ resultsFile' = Written(resultsFile, run_results', w)
    /\ ioFailed' = (\/ ioFailed
                    \/ w # "ok"
                    \/ /\ completed_users \ {pending_users[i] : i \in DOMAIN pending_users} # {}
                       /\ resultsFile.state = "corrupt")
    /\ runPc' = "done"
    /\ UNCHANGED <<usernames, progressFile, runs, completed_users, loaded, pending_users,
                   idx, fetched, statCalls, succeeded, allOk, flushOk, everAbnormal, prev>>
    /\ UNCHANGED <<fetchVars, statsVars, exportVars, waitVars, commitVars>>

\* Lines 691-695 and the end of main: the process exits normally.
Exit ==
    /\ runPc = "done"
    /\ runPc' = "off"
    /\ prev' = [exit |-> "normal", allOk |-> allOk, io |-> ioFailed, returned |-> run_results]
    /\ UNCHANGED <<usernames, progressFile, resultsFile, runs, completed_users, loaded,
                   pending_users, idx, run_results, fetched, statCalls, succeeded, allOk,
                   ioFailed, flushOk, everAbnormal>>
    /\ UNCHANGED <<fetchVars, statsVars, exportVars, waitVars, commitVars>>

\* KeyboardInterrupt while analyze_users runs: no handler below main catches
\* it (they catch Exception), main's handler flushes and the process exits.
Interrupt(w) ==
    /\ runPc \in {"loop", "stats", "retry"}
    /\ progressFile' = InterruptFlush(progressFile, completed_users, w)
    /\ flushOk' = (w = "ok")
    /\ runPc' = "off"
    /\ everAbnormal' = TRUE
    /\ prev' = [exit |-> "interrupted", allOk |-> FALSE, io |-> (ioFailed \/ w # "ok"),
                returned |-> <<>>]
    /\ UNCHANGED <<usernames, resultsFile, runs, completed_users, loaded, pending_users,
                   idx, run_results, fetched, statCalls, succeeded, allOk, ioFailed>>
    /\ UNCHANGED <<fetchVars, statsVars, exportVars, waitVars, commitVars>>

\* The process is killed while analyze_users runs: nothing more is written.
Crash ==
    /\ runPc \in {"loop", "stats", "retry"}
    /\ runPc' = "off"
    /\ everAbnormal' = TRUE
    /\ prev' = [exit |-> "crashed", allOk |-> FALSE, io |-> ioFailed, returned |-> <<>>]
    /\ UNCHANGED <<usernames, progressFile, resultsFile, runs, completed_users, loaded,
                   pending_users, idx, run_results, fetched, statCalls, succeeded, allOk,
                   ioFailed, flushOk>>
    /\ UNCHANGED <<fetchVars, statsVars, exportVars, waitVars, commitVars>>

NextRun ==
    \/ StartRun
    \/ BeginUser
    \/ \E w \in WriteOutcomes : UserSucceeds(w)
    \/ \E e \in Failures : UserFailsQuota(e)
    \/ \E e \in Failures : UserFailsOther(e)
    \/ \E w \in WriteOutcomes : RetrySucceeds(w)
    \/ \E e \in Failures, w \in WriteOutcomes : RetryFails(e, w)
    \/ \E w \in WriteOutcomes : FinishLoop(w)
    \/ Exit
    \/ \E w \in WriteOutcomes : Interrupt(w)
    \/ Crash

(* ---------------------------------------------------------------------- *)
(* Properties of the checkpoint store and the run orchestrator             *)
(* ---------------------------------------------------------------------- *)
HasRecord(recs, u) == \E i \in DOMAIN recs : recs[i].username = u

NoDuplicates(names) == \A i, j \in DOMAIN names : names[i] = names[j] => i = j

AsSet(recs) == {recs[i] : i \in DOMAIN recs}

\* C5: when an earlier process was interrupted or killed and a later run over
\* the same list completes normally with every file read and write of its own
\* succeeding, the results it returns hold a record for every user of the
\* completion set.
C5_ResumedRunCoversCompletionSet ==
    (runPc = "done" /\ everAbnormal /\ ~ioFailed)
        => \A u \in completed_users : HasRecord(run_results, u)

\* C5, the part that holds: every user completed in the run itself has a
\* record in what the run returns.
C5_OwnUsersAreReturned ==
    runPc = "done" => \A u \in succeeded : HasRecord(run_results, u)

\* C6: a run that follows a normally completed run in which every user
\* succeeded, with no file read or write failing in either, calls
\* get_user_stats for nobody, sends nothing to the host, and returns the same
\* records: as a set always, as a list when no username is listed twice.
C6_SecondRunIsIdempotent ==
    (runPc = "done" /\ prev.exit = "normal" /\ prev.allOk /\ ~prev.io /\ ~ioFailed)
        => /\ statCalls = <<>>
           /\ fetched = {}
           /\ AsSet(run_results) = AsSet(prev.returned)
           /\ NoDuplicates(usernames) => run_results = prev.returned

C6_Witness ==
    /\ runPc = "done" /\ prev.exit = "normal" /\ prev.allOk /\ ~prev.io /\ ~ioFailed
    /\ Len(usernames) = 2 /\ NoDuplicates(usernames)
    /\ Len(run_results) = 2
    /\ run_results = prev.returned
    /\ \A i \in DOMAIN run_results : run_results[i].ver < runs

FirstAttempts == SelectSeq(statCalls, LAMBDA c : ~c.retry)

\* C7: the first attempts of get_user_stats in a run are, in order, the
\* usernames of the list that were not in the completion set loaded at the
\* start; a user of the loaded set is never fetched again, and once the loop
\* is over every such pending user has had his attempt.
C7_ResumeSkipsCompletedUsers ==
    runPc # "off" =>
        LET expected == SelectSeq(usernames, LAMBDA u : u \notin loaded) IN
        /\ Len(FirstAttempts) <= Len(expected)
        /\ \A i \in DOMAIN FirstAttempts : FirstAttempts[i].user = expected[i]
        /\ \A i \in DOMAIN statCalls : statCalls[i].user \notin loaded
        /\ fetched \cap loaded = {}
        /\ runPc = "done" => Len(FirstAttempts) = Len(expected)

C7_Witness ==
    /\ runPc = "done"
    /\ usernames = <<"u1", "u2">>
    /\ loaded = {"u1"}
    /\ statCalls = <<[user |-> "u2", retry |-> FALSE, outcome |-> "returned",
                      cause |-> NoFailure, saved |-> TRUE]>>
    /\ fetched = {"u2"}

\* C8: after an interrupt whose flush was written, the persisted completion
\* set is exactly the users whose aggregation had completed in the run
\* together with those loaded at its start.
C8_InterruptFlushesCompletionSet ==
    (runPc = "off" /\ prev.exit = "interrupted" /\ flushOk)
        => /\ progressFile.state = "ok"
           /\ progressFile.data = loaded \cup succeeded

C8_Witness ==
    /\ runPc = "off" /\ prev.exit = "interrupted" /\ flushOk
    /\ ioFailed
    /\ loaded = {"u1"} /\ succeeded = {"u2"}
    /\ progressFile.state = "ok"
    /\ progressFile.data = {"u1", "u2"}

\* The users of the calls of get_user_stats that returned, in call order.
ReturnedUsers == [i \in DOMAIN SelectSeq(statCalls, LAMBDA c : c.outcome = "returned") |->
                     SelectSeq(statCalls, LAMBDA c : c.outcome = "returned")[i].user]

RaisedCalls == SelectSeq(statCalls, LAMBDA c : c.outcome = "raised")

\* C12: while the loop of a run goes on, the result list holds one record per
\* call of get_user_stats that returned, in call order, and nothing for a
\* call that raised; the completion set is the loaded users and the users of
\* the calls that returned; and when the loop is over every pending username
\* has had its attempt, whatever failed before it.
C12_FailingUserIsIsolated ==
    /\ runPc \in {"loop", "stats", "retry"} =>
          /\ [i \in DOMAIN run_results |-> run_results[i].username] = ReturnedUsers
          /\ completed_users = loaded \cup {ReturnedUsers[i] : i \in DOMAIN ReturnedUsers}
    /\ runPc = "done" => Len(FirstAttempts) = Len(pending_users)

\* A run in which the first pending user failed for good and the second one
\* was then fetched and recorded.
C12_Witness ==
    /\ runPc = "loop"
    /\ pending_users = <<"u1", "u2">>
    /\ idx = 3
    /\ Len(statCalls) = 2
    /\ statCalls[1].user = "u1" /\ ~statCalls[1].retry /\ statCalls[1].outcome = "raised"
    /\ statCalls[2].user = "u2" /\ ~statCalls[2].retry /\ statCalls[2].outcome = "returned"
    /\ run_results = <<UserRecord("u2", runs)>>
    /\ completed_users = {"u2"}

\* What C13 says of the first attempt at position i of statCalls, q telling
\* whether its failure counts as one of quota exhaustion: the next call is
\* the one retry of the same user; when the retry returned the user is
\* completed; when it raised the user is not completed by it and, unless the
\* username is listed again, no further call is made for it in the run.
RetriedOnce(i, q) ==
    (statCalls[i].outcome = "raised" /\ ~statCalls[i].retry /\ q) =>
        /\ i < Len(statCalls)
        /\ statCalls[i + 1].user = statCalls[i].user
        /\ statCalls[i + 1].retry
        /\ \A j \in DOMAIN statCalls :
              (j > i + 1 /\ NoDuplicates(usernames)) => statCalls[j].user # statCalls[i].user
        /\ statCalls[i + 1].outcome = "returned" => statCalls[i].user \in completed_users
        /\ (statCalls[i + 1].outcome = "raised" /\ NoDuplicates(usernames))
              => statCalls[i].user \notin completed_users

\* C13: a first attempt that failed because the host answered 403
\* quota-exceeded is retried exactly once, the user being completed when the
\* retry returns and left out, and not attempted again, when it raises.
C13_QuotaFailureIsRetriedOnce ==
    \A i \in DOMAIN statCalls : RetriedOnce(i, IsQuotaExceeded(statCalls[i].cause))

\* The part of C13 the code keeps: the retry is made whenever the text of
\* the failure contains "API rate limit exceeded" as written, and only then.
C13_RetriedWhenTextMatches ==
    /\ \A i \in DOMAIN statCalls :
          RetriedOnce(i, IndicatesQuota(ExceptionText(statCalls[i].cause)))
    /\ \A i \in DOMAIN statCalls :
          statCalls[i].retry =>
              /\ i > 1 /\ ~statCalls[i - 1].retry
              /\ statCalls[i - 1].user = statCalls[i].user
              /\ IndicatesQuota(ExceptionText(statCalls[i - 1].cause))

\* A first attempt that raised with a failure that neither is a
\* quota-exceeded answer nor reads like one.
OrdinaryFailure(c) ==
    /\ c.outcome = "raised" /\ ~c.retry
    /\ ~IsQuotaExceeded(c.cause)
    /\ ~IndicatesQuota(ExceptionText(c.cause))

\* C14: after a first attempt failed with a failure that does not indicate
\* quota exhaustion, save_progress is called before the next user starts,
\* the user is not retried, and the loop moves on.
C14_OrdinaryFailureIsCheckpointed ==
    \A i \in DOMAIN statCalls :
        OrdinaryFailure(statCalls[i]) =>
            /\ statCalls[i].saved
            /\ i < Len(statCalls) => ~statCalls[i + 1].retry

\* The part of C14 the code keeps: no retry, the loop moves on, and the
\* completion set and the result list are as they were.
C14_OrdinaryFailureMovesOn ==
    \A i \in DOMAIN statCalls :
        OrdinaryFailure(statCalls[i]) =>
            /\ i < Len(statCalls) => ~statCalls[i + 1].retry
            /\ (i = Len(statCalls) /\ runPc \in {"loop", "done"}) => idx > Len(FirstAttempts)

\* The completion set a process started now would load.
Persisted == load_progress(progressFile)

\* Between two users, with every read and write of the process so far
\* having succeeded, the checkpoint holds the in-memory completion set,
\* which is what was loaded plus the users whose call returned.
AtUserBoundary == runPc = "loop"

C20_BoundaryState ==
    /\ runPc # "off" => completed_users = loaded \cup succeeded
    /\ (AtUserBoundary /\ ~ioFailed) => Persisted = completed_users

\* Within a run the completion set only grows, and a step that adds user u
\* to it is the return of get_user_stats(u): the call entered last was for
\* u and ends as returned, u's record is appended to the results, the
\* progress is saved in the same branch, and the next user comes after.
C20_Step ==
    runPc # "off" =>
        /\ completed_users \subseteq completed_users'
        /\ \A u \in completed_users' \ completed_users :
              /\ runPc \in {"stats", "retry"}
              /\ statCalls[Len(statCalls)].user = u
              /\ statCalls'[Len(statCalls')].outcome = "returned"
              /\ statCalls'[Len(statCalls')].saved
              /\ run_results' = Append(run_results, UserRecord(u, runs))
              /\ progressFile'.state = "ok" =>
                    progressFile'.data \in {completed_users', Persisted}
              /\ runPc' = "loop"

\* C20: within a run the in-memory completion set only grows; a username
\* is added to it only in the step in which get_user_stats returned for
\* that username and its record was appended to the result list; the
\* progress is saved with every addition before the next user starts, so
\* between two users the persisted completion set equals the in-memory one
\* as long as the writes succeeded.
C20_CompletionSetInvariant == []C20_BoundaryState /\ [][C20_Step]_vars

\* A resumed run, between two users: one user loaded from the checkpoint,
\* the other added by this run, both in the checkpoint.
C20_Witness ==
    /\ AtUserBoundary
    /\ ~ioFailed
    /\ runs = 2
    /\ loaded # {}
    /\ succeeded # {}
    /\ progressFile = FileWith(loaded \cup succeeded)

\* The calls of get_user_stats this run has made for username u.
CallsFor(u) == {i \in DOMAIN statCalls : statCalls[i].user = u}

\* The state of username u in this run, read off its latest call: none
\* yet, one running (a retry counts), the last one returned, or the last
\* one raised with no retry behind it.
UserState(u) ==
    IF CallsFor(u) = {} THEN "PENDING"
    ELSE LET last == statCalls[CHOOSE i \in CallsFor(u) : \A j \in CallsFor(u) : j <= i]
         IN CASE last.outcome = "running" -> "IN_PROGRESS"
              [] last.outcome = "returned" -> "COMPLETED"
              [] OTHER -> "FAILED"

PendingNames == {pending_users[i] : i \in DOMAIN pending_users}

\* The moves of the per-user state machine.
UserMoves ==
    {<<"PENDING", "IN_PROGRESS">>, <<"IN_PROGRESS", "COMPLETED">>,
     <<"IN_PROGRESS", "FAILED">>}

\* A step of a run moves no username but along the state machine.
LifecycleStep ==
    runPc # "off" =>
        \A u \in Users :
            \/ UserState(u)' = UserState(u)
            \/ <<UserState(u), UserState(u)'>> \in UserMoves

\* get_user_stats is invoked at most twice for a username, and at least
\* once for every pending username when analyze_users returns.
LifecycleCalls ==
    runPc # "off" =>
        /\ \A u \in Users : Cardinality(CallsFor(u)) <= 2
        /\ runPc = "done" =>
              \A u \in PendingNames :
                  /\ Cardinality(CallsFor(u)) >= 1
                  /\ UserState(u) \in {"COMPLETED", "FAILED"}

\* analyze_users returns with every pending username completed or failed.
AllSettled ==
    /\ runPc = "done"
    /\ \A u \in PendingNames : UserState(u) \in {"COMPLETED", "FAILED"}

\* C21: in a run every pending username moves PENDING -> IN_PROGRESS ->
\* COMPLETED or FAILED and never leaves COMPLETED or FAILED; get_user_stats
\* is invoked for it at least once and at most twice; and in a run that is
\* not terminated from outside, in which every call of get_user_stats ends,
\* every pending username reaches COMPLETED or FAILED and analyze_users
\* returns.
C21_UserLifecycle ==
    /\ [][LifecycleStep]_statCalls
    /\ []LifecycleCalls
    /\ (runPc = "loop") ~> AllSettled

\* The part of C21 the code keeps: the same for a list that names no
\* username twice.
C21_LifecycleOfDistinctNames ==
    /\ [][NoDuplicates(usernames) => LifecycleStep]_statCalls
    /\ [](NoDuplicates(usernames) => LifecycleCalls)
    /\ (runPc = "loop") ~> AllSettled

\* The usernames of a list of records, in order.
RecordNames(recs) == [i \in DOMAIN recs |-> recs[i].username]

\* C22: whatever the supplied list (a name may be listed more than once)
\* and the files left by earlier runs, the list analyze_users returns holds
\* at most one record per username.
C22_OneRecordPerUser ==
    runPc = "done" => NoDuplicates(RecordNames(run_results))

\* The part of C22 the code keeps: a list that names no username twice
\* yields at most one record per username.
C22_OneRecordPerListedName ==
    (runPc = "done" /\ NoDuplicates(usernames))
        => NoDuplicates(RecordNames(run_results))

\* The names of the supplied list.
ListedNames == {usernames[i] : i \in DOMAIN usernames}

\* C23, as stated: every record of the list analyze_users returns has a
\* username of the supplied list, whatever the completion set and the result
\* file hold from before.
C23_ResultsLimitedToRequest ==
    runPc = "done" => NamesIn(run_results) \subseteq ListedNames

\* C23, amended: every record of the list analyze_users returns is either a
\* record this run produced for a pending username of the supplied list, or
\* a record of the prior result file for a user of the completion set
\* loaded at the start, listed or not.
C23_ResultsLimitedToRequestOrCompleted ==
    runPc = "done" =>
        \A i \in DOMAIN run_results :
            LET rec == run_results[i] IN
            \/ rec.ver = runs /\ rec.username \in PendingNames
            \/ rec.ver # runs /\ rec.username \in loaded

\* A run over a list that does not name a user of the loaded completion set
\* returns that user's cached record next to a record of its own.
C23_Witness ==
    /\ runPc = "done"
    /\ \E i \in DOMAIN run_results : run_results[i].username \notin ListedNames
    /\ \E i \in DOMAIN run_results : run_results[i].ver = runs

\* The records of the result list that this run produced.
OwnRecords == SelectSeq(run_results, LAMBDA r : r.ver = runs)

\* C26: a missing or unreadable checkpoint makes load_progress yield the
\* empty completion set and the run starts; whatever write of the
\* checkpoint and whatever read or write of the result file fails, the run
\* goes on to the return of analyze_users with every pending user
\* attempted, the in-memory completion set is what was loaded plus the
\* users whose call returned, and the records of this run are all in the
\* returned list, in call order.
C26_PersistenceIsBestEffort ==
    /\ (runPc = "loop" /\ statCalls = <<>>) =>
          /\ completed_users = Persisted
          /\ progressFile.state # "ok" => completed_users = {}
    /\ runPc # "off" => completed_users = loaded \cup succeeded
    /\ runPc = "done" =>
          /\ Len(FirstAttempts) = Len(pending_users)
          /\ RecordNames(OwnRecords) = ReturnedUsers

\* A run that loaded nothing returns its records although the checkpoint
\* and the result file are both left unreadable.
C26_Witness ==
    /\ runPc = "done"
    /\ loaded = {}
    /\ progressFile.state = "corrupt"
    /\ resultsFile.state = "corrupt"
    /\ succeeded # {}
    /\ Len(OwnRecords) = Cardinality(succeeded)

(* ---------------------------------------------------------------------- *)
(* Export: the composite score and the order of the rows                   *)
(* ---------------------------------------------------------------------- *)
MaxRows == 3         \* records given to export_to_excel

\* The weights of lines 365-370, in halves: 3, 0.5, 1, 1.5, 2, 0.5.
ScoreWeights == [pr_merged |-> 6, commits |-> 1, issues_opened |-> 2,
                 issues_closed |-> 3, reviews_submitted |-> 4, issues_commented |-> 1]

\* Counter sets of records: nothing, one unit of each counter, and a mix.
NoCounts == [c \in DOMAIN ScoreWeights |-> 0]
ScoreCounts ==
    {NoCounts} \cup {[NoCounts EXCEPT ![c] = 1] : c \in DOMAIN ScoreWeights}
    \cup {[NoCounts EXCEPT !["pr_merged"] = 2, !["commits"] = 3]}

\* Records: the overall counters and those of one organization.
ExportRecords ==
    UNION {{[overall |-> f, org |-> g] : g \in {NoCounts, f}} : f \in ScoreCounts}

RECURSIVE WeightedSum(_, _, _)
WeightedSum(f, w, cs) ==
    IF cs = {} THEN 0
    ELSE LET c == CHOOSE x \in cs : TRUE
         IN f[c] * w[c] + WeightedSum(f, w, cs \ {c})

\* Lines 364-371, with every counter weighted 1.
Score_Unweighted(f) == WeightedSum(f, [c \in DOMAIN ScoreWeights |-> 2], DOMAIN ScoreWeights)

\* Lines 364-371 and 376-383: the score of one counter set, in halves.
Score(f) == WeightedSum(f, ScoreWeights, DOMAIN ScoreWeights)

\* Lines 361-383: the frame with the score columns.
WithScores(data) ==
    [i \in DOMAIN data |->
        [overall |-> data[i].overall, org |-> data[i].org,
         contribution_score |-> Score(data[i].overall),
         org_contribution_score |-> Score(data[i].org)]]

\* Line 386: sort_values(ascending=False); rows of equal score come in an
\* order the sort does not fix.
SortedByScore(rows) ==
    {[i \in DOMAIN rows |-> rows[pi[i]]] :
        pi \in {q \in [DOMAIN rows -> DOMAIN rows] :
                    /\ \A i, j \in DOMAIN rows : q[i] = q[j] => i = j
                    /\ \A i, j \in DOMAIN rows :
                          i < j => rows[q[i]].contribution_score
                                     >= rows[q[j]].contribution_score}}

ExportIdle ==
    /\ exportPc = "idle"
    /\ exported = <<>>

\* export_to_excel(data), lines 357-386: nothing for empty data, otherwise
\* the scored and sorted frame.
ExportToExcel ==
    /\ exportPc = "idle"
    /\ exportPc' = "done"
    /\ IF exportData = <<>>
       THEN exported' = <<>>
       ELSE exported' \in SortedByScore(WithScores(exportData))
    /\ UNCHANGED exportData
    /\ UNCHANGED <<fetchVars, statsVars, runVars, waitVars, commitVars>>

\* The caller goes on.
ExportDone ==
    /\ exportPc = "done"
    /\ exportPc' = "idle"
    /\ exported' = <<>>
    /\ UNCHANGED exportData
    /\ UNCHANGED <<fetchVars, statsVars, runVars, waitVars, commitVars>>

NextExport ==
    \/ ExportToExcel
    \/ ExportDone

\* Twice the score the claim gives for a counter set.
TwiceScore(f) ==
    6 * f["pr_merged"] + f["commits"] + 2 * f["issues_opened"] + 3 * f["issues_closed"]
        + 4 * f["reviews_submitted"] + f["issues_commented"]

\* C15: every exported row carries, overall and for the organization, a
\* score whose double is 6*pr_merged + commits + 2*issues_opened +
\* 3*issues_closed + 4*reviews_submitted + issues_commented; the rows are the
\* given records, ordered by the overall score, highest first.
C15_ScoreAndOrder ==
    (exportPc = "done" /\ exportData # <<>>) =>
        /\ Len(exported) = Len(exportData)
        /\ \A r \in ExportRecords :
              Cardinality({i \in DOMAIN exported :
                              exported[i].overall = r.overall /\ exported[i].org = r.org})
                = Cardinality({i \in DOMAIN exportData : exportData[i] = r})
        /\ \A i \in DOMAIN exported :
              /\ exported[i].contribution_score = TwiceScore(exported[i].overall)
              /\ exported[i].org_contribution_score = TwiceScore(exported[i].org)
        /\ \A i, j \in DOMAIN exported :
              i < j => exported[i].contribution_score >= exported[j].contribution_score

\* Three records given in ascending order of score, one of them with a
\* score of a half, come out in descending order.
C15_Witness ==
    /\ exportPc = "done"
    /\ Len(exportData) = 3
    /\ exportData[1].overall = [NoCounts EXCEPT !["commits"] = 1]
    /\ exportData[2].overall = [NoCounts EXCEPT !["issues_closed"] = 1]
    /\ exportData[3].overall = [NoCounts EXCEPT !["pr_merged"] = 2, !["commits"] = 3]
    /\ exported[1].contribution_score = 15
    /\ exported[2].contribution_score = 3
    /\ exported[3].contribution_score = 1

(* ---------------------------------------------------------------------- *)
(* Commit phase of get_user_stats, lines 205-225                           *)
(* ---------------------------------------------------------------------- *)
MaxRepos == 4           \* repositories one organization can have touched

repo_batch_size == 3    \* line 207

\* list(org_stats['repos_contributed']), line 208: the touched repositories,
\* each once, in whatever order the set yields them.
RepoLists ==
    UNION {{l \in [1..n -> 1..MaxRepos] : \A i, j \in 1..n : i # j => l[i] # l[j]}
           : n \in 0..MaxRepos}

\* The calls the phase makes.
CommitsCall(repo) == [call |-> "commits", repo |-> repo]
RefreshCall == [call |-> "update_rate_limit_info", repo |-> 0]
WaitCall == [call |-> "wait_for_rate_limit", repo |-> 0]
ReviewsCall == [call |-> "reviews", repo |-> 0]

\* The slice taken as if it ran to the end of the list.
batch_repos_ToTheEnd(list, i) == SubSeq(list, i + 1, Len(list))

\* repo_list[i:i+repo_batch_size], line 211 (i counts from 0).
batch_repos(list, i) ==
    SubSeq(list, i + 1, IF i + repo_batch_size < Len(list)
                        THEN i + repo_batch_size ELSE Len(list))

CommitIdle ==
    /\ commitPc = "idle"
    /\ batchStart = 0
    /\ batchLeft = <<>>
    /\ commitCalls = <<>>

\* Lines 208-211: the list is taken and the loop over range(0, len, 3)
\* starts, or is skipped for an empty list.
BeginCommitPhase ==
    /\ commitPc = "idle"
    /\ batchStart' = 0
    /\ IF Len(repo_list) = 0
       THEN /\ commitPc' = "reviews"
            /\ batchLeft' = <<>>
       ELSE /\ commitPc' = "fetch"
            /\ batchLeft' = batch_repos(repo_list, 0)
    /\ UNCHANGED <<repo_list, commitCalls>>
    /\ UNCHANGED <<fetchVars, statsVars, runVars, exportVars, waitVars>>

\* Lines 212-217: the commit list of the next repository of the batch.
FetchCommits ==
    /\ commitPc = "fetch"
    /\ batchLeft # <<>>
    /\ commitCalls' = Append(commitCalls, CommitsCall(Head(batchLeft)))
    /\ batchLeft' = Tail(batchLeft)
    /\ commitPc' = IF Tail(batchLeft) = <<>> THEN "refresh" ELSE "fetch"
    /\ UNCHANGED <<repo_list, batchStart>>
    /\ UNCHANGED <<fetchVars, statsVars, runVars, exportVars, waitVars>>

\* Line 214 raises (lines 558-559 or 603): the exception leaves
\* get_user_stats, nothing of the phase follows.
FetchCommitsRaises ==
    /\ commitPc = "fetch"
    /\ batchLeft # <<>>
    /\ commitCalls' = Append(commitCalls, CommitsCall(Head(batchLeft)))
    /\ commitPc' = "raised"
    /\ UNCHANGED <<repo_list, batchStart, batchLeft>>
    /\ UNCHANGED <<fetchVars, statsVars, runVars, exportVars, waitVars>>

\* Line 220.
RefreshAfterBatch ==
    /\ commitPc = "refresh"
    /\ commitCalls' = Append(commitCalls, RefreshCall)
    /\ commitPc' = "wait"
    /\ UNCHANGED <<repo_list, batchStart, batchLeft>>
    /\ UNCHANGED <<fetchVars, statsVars, runVars, exportVars, waitVars>>

\* Line 221, then the next value of range(0, len, 3) or the end of the loop.
WaitAfterBatch ==
    /\ commitPc = "wait"
    /\ commitCalls' = Append(commitCalls, WaitCall)
    /\ IF batchStart + repo_batch_size < Len(repo_list)
       THEN /\ batchStart' = batchStart + repo_batch_size
            /\ batchLeft' = batch_repos(repo_list, batchStart + repo_batch_size)
            /\ commitPc' = "fetch"
       ELSE /\ commitPc' = "reviews"
            /\ UNCHANGED <<batchStart, batchLeft>>
    /\ UNCHANGED repo_list
    /\ UNCHANGED <<fetchVars, statsVars, runVars, exportVars, waitVars>>

\* Lines 224-225: the reviews query.
FetchReviews ==
    /\ commitPc = "reviews"
    /\ commitCalls' = Append(commitCalls, ReviewsCall)
    /\ commitPc' = "done"
    /\ UNCHANGED <<repo_list, batchStart, batchLeft>>
    /\ UNCHANGED <<fetchVars, statsVars, runVars, exportVars, waitVars>>

NextCommits ==
    \/ BeginCommitPhase
    \/ FetchCommits
    \/ FetchCommitsRaises
    \/ RefreshAfterBatch
    \/ WaitAfterBatch
    \/ FetchReviews

\* The commit fetches among the first p calls.
FetchesUpTo(p) ==
    Cardinality({k \in 1..p : commitCalls[k].call = "commits"})

CallsOf(c) == Cardinality({k \in DOMAIN commitCalls : commitCalls[k] = c})

\* C28: for an organization with n touched repositories the phase fetches
\* one commit list per repository, each repository once; no batch holds
\* more than 3 fetches; a batch is closed by update_rate_limit_info
\* directly followed by wait_for_rate_limit, and only a closed batch is
\* followed by the first fetch of the next batch or by the reviews query;
\* a phase that ran through has closed ceil(n / 3) batches, none for n = 0.
C28_CommitBatchThrottle ==
    LET n == Len(repo_list)
        last == Len(commitCalls)
        IsFetch(p) == commitCalls[p].call = "commits"
    IN /\ FetchesUpTo(last) <= n
       /\ \A p \in 1..last :
            IsFetch(p) =>
              /\ commitCalls[p].repo = repo_list[FetchesUpTo(p)]
              /\ p > repo_batch_size =>
                   \E k \in (p - repo_batch_size)..(p - 1) : ~IsFetch(k)
              /\ p > 1 => \/ IsFetch(p - 1)
                          \/ commitCalls[p - 1] = WaitCall
       /\ \A p \in 1..last :
            commitCalls[p] = RefreshCall =>
              /\ p > 1 /\ IsFetch(p - 1)
              /\ FetchesUpTo(p) % repo_batch_size = 0 \/ FetchesUpTo(p) = n
              /\ p < last => commitCalls[p + 1] = WaitCall
       /\ \A p \in 1..last :
            commitCalls[p] = WaitCall => p > 1 /\ commitCalls[p - 1] = RefreshCall
       /\ \A p \in 1..last :
            commitCalls[p] = ReviewsCall =>
              /\ p = last
              /\ FetchesUpTo(p) = n
              /\ IF n = 0 THEN p = 1 ELSE commitCalls[p - 1] = WaitCall
       /\ commitPc = "done" =>
            /\ FetchesUpTo(last) = n
            /\ CallsOf(RefreshCall) = (n + repo_batch_size - 1) \div repo_batch_size
            /\ CallsOf(WaitCall) = (n + repo_batch_size - 1) \div repo_batch_size
            /\ CallsOf(ReviewsCall) = 1

\* Four touched repositories: a batch of three, a batch of one, each closed
\* by the refresh and the wait, then the reviews query.
C28_Witness ==
    /\ commitPc = "done"
    /\ Len(repo_list) = 4
    /\ commitCalls = <<CommitsCall(repo_list[1]), CommitsCall(repo_list[2]),
                       CommitsCall(repo_list[3]), RefreshCall, WaitCall,
                       CommitsCall(repo_list[4]), RefreshCall, WaitCall,
                       ReviewsCall>>

(* ---------------------------------------------------------------------- *)
(* Specifications                                                          *)
(* ---------------------------------------------------------------------- *)
\* The fetcher over a network that never fails at the transport level.
Init ==
    /\ InitFetch
    /\ organizations = <<>> /\ StatsIdle
    /\ usernames = <<>> /\ RunIdle
    /\ exportData = <<>> /\ ExportIdle
    /\ WaitIdle
    /\ repo_list = <<>> /\ CommitIdle

Spec == Init /\ [][Next]_vars

\* The fetcher over a network that can also fail at the transport level.
\* One call of _paginated_request is followed to its end.
NextNet ==
    \/ calls = 0 /\ \E u \in Urls : Call(u)
    \/ \E hRem \in HeaderRemaining, hReset \in HeaderReset :
         \E out \in AnswersFor(NoteFromHeaders(Quota(rate_limit_remaining, reset_in),
                                                hRem, hReset)) :
            Page200(hRem, hReset, out)
    \/ \E hRem \in HeaderRemaining, hReset \in HeaderReset :
         \E out \in AnswersAfterQuotaExceeded(
                        NoteFromHeaders(Quota(rate_limit_remaining, reset_in),
                                        hRem, hReset)) :
            Page403(hRem, hReset, out)
    \/ \E hRem \in HeaderRemaining, hReset \in HeaderReset :
         PageHardFail(hRem, hReset)
    \/ PageNetworkFail
    \/ Finish

SpecNet == Init /\ [][NextNet]_vars

\* The aggregator, for every configured organization list.
InitStats ==
    /\ rate_limit_remaining = DefaultRemaining
    /\ reset_in = PastReset
    /\ FetcherIdle
    /\ organizations \in OrgLists
    /\ StatsIdle
    /\ usernames = <<>> /\ RunIdle
    /\ exportData = <<>> /\ ExportIdle
    /\ WaitIdle
    /\ repo_list = <<>> /\ CommitIdle

SpecStats == InitStats /\ [][NextStats]_vars

\* The orchestrator over successive processes sharing the two files, for
\* every username list.
InitRun ==
    /\ rate_limit_remaining = DefaultRemaining
    /\ reset_in = PastReset
    /\ FetcherIdle
    /\ organizations = <<>> /\ StatsIdle
    /\ usernames \in UserLists
    /\ RunIdle
    /\ exportData = <<>> /\ ExportIdle
    /\ WaitIdle
    /\ repo_list = <<>> /\ CommitIdle

SpecRun == InitRun /\ [][NextRun]_vars

\* export_to_excel, for every list of records.
InitExport ==
    /\ rate_limit_remaining = DefaultRemaining
    /\ reset_in = PastReset
    /\ FetcherIdle
    /\ organizations = <<>> /\ StatsIdle
    /\ usernames = <<>> /\ RunIdle
    /\ exportData \in UNION {[1..n -> ExportRecords] : n \in 0..MaxRows}
    /\ ExportIdle
    /\ WaitIdle
    /\ repo_list = <<>> /\ CommitIdle

SpecExport == InitExport /\ [][NextExport]_vars

\* The quota tracker, for every tracked quota around the floor and every
\* position of the clock around the reset.
InitQuota ==
    /\ rate_limit_remaining \in {0, RateLimitFloor - 1, RateLimitFloor, DefaultRemaining}
    /\ reset_in \in PastReset..MaxAhead
    /\ FetcherIdle
    /\ organizations = <<>> /\ StatsIdle
    /\ usernames = <<>> /\ RunIdle
    /\ exportData = <<>> /\ ExportIdle
    /\ WaitIdle
    /\ repo_list = <<>> /\ CommitIdle

SpecQuota == InitQuota /\ [][NextQuota]_vars

\* A run that nothing terminates from outside goes on to its end: the
\* single thread of control takes its next step whenever it has one (every
\* step of it changes runPc).
NextRunToEnd ==
    \/ StartRun
    \/ BeginUser
    \/ \E w \in WriteOutcomes : UserSucceeds(w)
    \/ \E e \in Failures : UserFailsQuota(e)
    \/ \E e \in Failures : UserFailsOther(e)
    \/ \E w \in WriteOutcomes : RetrySucceeds(w)
    \/ \E e \in Failures, w \in WriteOutcomes : RetryFails(e, w)
    \/ \E w \in WriteOutcomes : FinishLoop(w)
    \/ Exit

SpecRunToEnd == InitRun /\ [][NextRunToEnd]_vars /\ WF_runPc(NextRunToEnd)

\* One run over the files whatever earlier processes left: a checkpoint
\* and a result file of any content, also for users the list does not name.
MaxPrior == 2        \* records in the result file left from before

PriorCheckpoints ==
    {MissingCheckpoint, CorruptCheckpoint} \cup {FileWith(c) : c \in SUBSET Users}

PriorResults ==
    {MissingFile, CorruptFile} \cup
    {FileWith(recs) : recs \in UNION {[1..n -> {UserRecord(u, 0) : u \in Users}] :
                                        n \in 0..MaxPrior}}

InitResume ==
    /\ rate_limit_remaining = DefaultRemaining
    /\ reset_in = PastReset
    /\ FetcherIdle
    /\ organizations = <<>> /\ StatsIdle
    /\ usernames \in UserLists
    /\ progressFile \in PriorCheckpoints
    /\ resultsFile \in PriorResults
    /\ runPc = "off"
    /\ runs = 0
    /\ completed_users = {}
    /\ loaded = {}
    /\ pending_users = <<>>
    /\ idx = 0
    /\ run_results = <<>>
    /\ fetched = {}
    /\ statCalls = <<>>
    /\ succeeded = {}
    /\ allOk = TRUE
    /\ ioFailed = FALSE
    /\ flushOk = FALSE
    /\ everAbnormal = FALSE
    /\ prev = NoPrev
    /\ exportData = <<>> /\ ExportIdle
    /\ WaitIdle
    /\ repo_list = <<>> /\ CommitIdle

NextResume ==
    \/ runs = 0 /\ StartRun
    \/ BeginUser
    \/ \E w \in WriteOutcomes : UserSucceeds(w)
    \/ \E e \in Failures : UserFailsQuota(e)
    \/ \E e \in Failures : UserFailsOther(e)
    \/ \E w \in WriteOutcomes : RetrySucceeds(w)
    \/ \E e \in Failures, w \in WriteOutcomes : RetryFails(e, w)
    \/ \E w \in WriteOutcomes : FinishLoop(w)
    \/ Exit
    \/ \E w \in WriteOutcomes : Interrupt(w)
    \/ Crash

SpecResume == InitResume /\ [][NextResume]_vars

\* The commit phase for one organization, over every list of touched
\* repositories.
InitCommits ==
    /\ InitFetch
    /\ organizations = <<>> /\ StatsIdle
    /\ usernames = <<>> /\ RunIdle
    /\ exportData = <<>> /\ ExportIdle
    /\ WaitIdle
    /\ repo_list \in RepoLists /\ CommitIdle

SpecCommits == InitCommits /\ [][NextCommits]_vars
====
